---- MODULE Spec2Model ----
(***************************************************************************)
(* Lambda calculus kernel of the beta reduction visualizer: AST, parser,   *)
(* capture-avoiding substitution, redex numbering, reduction at a chosen   *)
(* redex and the substitution-provenance ("linking") queries.              *)
(*                                                                         *)
(* A text is a sequence of characters (one-character strings; the Greek    *)
(* lambda U+03BB is written "lambda"); a variable name is the sequence of  *)
(* its characters.  JavaScript null is the value Null; redex ids and       *)
(* source ids are the integers 1, 2, ...                                   *)
(***************************************************************************)
EXTENDS Integers, Sequences, FiniteSets, TLC

VARIABLES expr, before, op, target, varName, replacement, markArg, origin,
          inputText, printed, error, avoidNames, fresh, steps, chain,
          shown, command, usedNullTarget

vars == <<expr, before, op, target, varName, replacement, markArg, origin,
          inputText, printed, error, avoidNames, fresh, steps, chain,
          shown, command, usedNullTarget>>

\* JavaScript null (ids are numbered from 1, so 0 is never an id).
Null == 0

----------------------------------------------------------------------------
\* AST node types

Variable(name, fromSubstitution, sourceId) ==
  [type |-> "variable", name |-> name,
   fromSubstitution |-> fromSubstitution, sourceId |-> sourceId]

Abstraction(param, body, fromSubstitution, sourceId) ==
  [type |-> "abstraction", param |-> param, body |-> body,
   fromSubstitution |-> fromSubstitution, sourceId |-> sourceId]

Application(func, arg, id, fromSubstitution, sourceId) ==
  [type |-> "application", func |-> func, arg |-> arg, id |-> id,
   fromSubstitution |-> fromSubstitution, sourceId |-> sourceId]

\* The constructors called with their default arguments.
NewVariable(name) == Variable(name, FALSE, Null)

NewAbstraction(param, body) == Abstraction(param, body, FALSE, Null)

\* The Application constructor with 1 as the default id.
NewApplicationNumbered(func, arg) == Application(func, arg, 1, FALSE, Null)

NewApplication(func, arg) == Application(func, arg, Null, FALSE, Null)

\* clone keeping the source id a node already carries.
RECURSIVE clonePreserving(_, _, _)
clonePreserving(e, fromSubstitution, sourceId) ==
  LET fs  == fromSubstitution \/ e.fromSubstitution
      sid == IF e.sourceId # Null THEN e.sourceId ELSE sourceId
  IN CASE e.type = "variable" -> Variable(e.name, fs, sid)
       [] e.type = "abstraction" ->
            Abstraction(e.param, clonePreserving(e.body, fromSubstitution, sourceId),
                        fs, sid)
       [] e.type = "application" ->
            Application(clonePreserving(e.func, fromSubstitution, sourceId),
                        clonePreserving(e.arg, fromSubstitution, sourceId), e.id, fs, sid)

RECURSIVE clone(_, _, _)
clone(e, fromSubstitution, sourceId) ==
  LET fs  == fromSubstitution \/ e.fromSubstitution
      sid == IF sourceId # Null THEN sourceId ELSE e.sourceId
  IN CASE e.type = "variable" -> Variable(e.name, fs, sid)
       [] e.type = "abstraction" ->
            Abstraction(e.param, clone(e.body, fromSubstitution, sourceId), fs, sid)
       [] e.type = "application" ->
            Application(clone(e.func, fromSubstitution, sourceId),
                        clone(e.arg, fromSubstitution, sourceId), e.id, fs, sid)

----------------------------------------------------------------------------
\* Parser

\* What source[position] gives past the end of the text.
Undefined == "undefined"

Letters ==
  {"a", "b", "c", "d", "e", "f", "g", "h", "i", "j", "k", "l", "m",
   "n", "o", "p", "q", "r", "s", "t", "u", "v", "w", "x", "y", "z",
   "A", "B", "C", "D", "E", "F", "G", "H", "I", "J", "K", "L", "M",
   "N", "O", "P", "Q", "R", "S", "T", "U", "V", "W", "X", "Y", "Z"}

Digits == {"0", "1", "2", "3", "4", "5", "6", "7", "8", "9"}

\* Character predicates.  RegExp.test converts its argument to a string, so
\* the undefined read past the end is tested as the text "undefined".
isWhitespace(char) == char \in {" ", "\t", "\n", "\r"}

\* isLambdaStart that knows the Greek marker only.
isLambdaStartGreekOnly(char) == char = "lambda"

isLambdaStart(char) == char \in {"lambda", "\\"}

isVariableStart(char) == char \in Letters \cup {Undefined}

isVariableChar(char) == char \in Letters \cup Digits \cup {"_", "'", Undefined}

isAtomStart(char) == char = "(" \/ isLambdaStart(char) \/ isVariableStart(char)

RECURSIVE trimStart(_)
trimStart(input) ==
  IF input # <<>> /\ isWhitespace(Head(input)) THEN trimStart(Tail(input)) ELSE input

RECURSIVE trimEnd(_)
trimEnd(input) ==
  IF input # <<>> /\ isWhitespace(input[Len(input)])
  THEN trimEnd(SubSeq(input, 1, Len(input) - 1)) ELSE input

trim(input) == trimEnd(trimStart(input))

\* Positions count from 0, as in the source.
currentChar(source, position) ==
  IF position < Len(source) THEN source[position + 1] ELSE Undefined

hasMore(source, position) == position < Len(source)

\* skipWhitespace that skips one character at most.
skipWhitespaceOnce(source, position) ==
  IF hasMore(source, position) /\ isWhitespace(currentChar(source, position))
  THEN position + 1 ELSE position

RECURSIVE skipWhitespace(_, _)
skipWhitespace(source, position) ==
  IF hasMore(source, position) /\ isWhitespace(currentChar(source, position))
  THEN skipWhitespace(source, position + 1) ELSE position

RECURSIVE scanVariableChars(_, _)
scanVariableChars(source, position) ==
  IF hasMore(source, position) /\ isVariableChar(currentChar(source, position))
  THEN scanVariableChars(source, position + 1) ELSE position

\* A thrown error: where and what.
ParseError(position, message) ==
  [ok |-> FALSE, position |-> position, message |-> message]

parseVariableName(source, startPosition) ==
  LET end  == scanVariableChars(source, startPosition)
      name == SubSeq(source, startPosition + 1, end)
  IN IF Len(name) = 0 THEN ParseError(end, "Expected variable name")
     ELSE [ok |-> TRUE, name |-> name, position |-> end]

RECURSIVE parseAtom(_, _)
RECURSIVE parseExpr(_, _)
RECURSIVE parseExprLoop(_, _, _)

parseAtom(source, position) ==
  LET p0   == skipWhitespace(source, position)
      char == currentChar(source, p0)
  IN IF char = "("
     THEN LET inner == parseExpr(source, p0 + 1)
          IN IF ~inner.ok THEN inner
             ELSE LET p1 == skipWhitespace(source, inner.position)
                  IN IF currentChar(source, p1) # ")"
                     THEN ParseError(p1, "Expected ')'")
                     ELSE [ok |-> TRUE, expr |-> inner.expr, position |-> p1 + 1]
     ELSE IF isLambdaStart(char)
     THEN LET p1 == skipWhitespace(source, p0 + 1)
              parameterName == parseVariableName(source, p1)
          IN IF ~parameterName.ok THEN parameterName
             ELSE LET p2 == skipWhitespace(source, parameterName.position)
                  IN IF currentChar(source, p2) # "."
                     THEN ParseError(p2, "Expected '.' after lambda parameter")
                     ELSE LET body == parseExpr(source, p2 + 1)
                          IN IF ~body.ok THEN body
                             ELSE [ok |-> TRUE,
                                   expr |-> NewAbstraction(parameterName.name, body.expr),
                                   position |-> body.position]
     ELSE IF isVariableStart(char)
     THEN LET name == parseVariableName(source, p0)
          IN IF ~name.ok THEN name
             ELSE [ok |-> TRUE, expr |-> NewVariable(name.name), position |-> name.position]
     ELSE ParseError(p0, "Unexpected character")

parseExprLoop(source, result, position) ==
  LET p0   == skipWhitespace(source, position)
      char == currentChar(source, p0)
      canContinue == hasMore(source, p0) /\ char # ")" /\ isAtomStart(char)
  IN IF ~canContinue THEN [ok |-> TRUE, expr |-> result, position |-> p0]
     ELSE LET nextAtom == parseAtom(source, p0)
          IN IF ~nextAtom.ok THEN nextAtom
             ELSE parseExprLoop(source, NewApplication(result, nextAtom.expr),
                                nextAtom.position)

parseExpr(source, position) ==
  LET first == parseAtom(source, skipWhitespace(source, position))
  IN IF ~first.ok THEN first
     ELSE parseExprLoop(source, first.expr, first.position)

\* parse without the test for unconsumed input.
parseIgnoringRest(input) == parseExpr(trim(input), 0)

\* Parser.parse on the trimmed input: the tree, or the error thrown.
parse(input) ==
  LET source == trim(input)
      result == parseExpr(source, 0)
  IN IF ~result.ok THEN result
     ELSE LET p == skipWhitespace(source, result.position)
          IN IF hasMore(source, p)
             THEN ParseError(p, "Unexpected character (expected end of input)")
             ELSE [ok |-> TRUE, expr |-> result.expr, position |-> p]

\* toPlainString that parenthesizes every abstraction, wherever it stands.
RECURSIVE toPlainStringWrapped(_)
toPlainStringWrapped(e) ==
  CASE e.type = "variable" -> e.name
    [] e.type = "abstraction" ->
         <<"(", "lambda">> \o e.param \o <<".">> \o toPlainStringWrapped(e.body)
                            \o <<")">>
    [] e.type = "application" ->
         <<"(">> \o toPlainStringWrapped(e.func) \o <<" ">> \o toPlainStringWrapped(e.arg)
                \o <<")">>

\* toPlainString without the parentheses around an abstraction in function
\* or argument position.
RECURSIVE toPlainStringBare(_)
toPlainStringBare(e) ==
  CASE e.type = "variable" -> e.name
    [] e.type = "abstraction" ->
         <<"lambda">> \o e.param \o <<".">> \o toPlainStringBare(e.body)
    [] e.type = "application" ->
         <<"(">> \o toPlainStringBare(e.func) \o <<" ">> \o toPlainStringBare(e.arg)
                \o <<")">>

\* toPlainString without the parentheses around an application.
RECURSIVE toPlainStringFlat(_)
toPlainStringFlat(e) ==
  CASE e.type = "variable" -> e.name
    [] e.type = "abstraction" ->
         <<"lambda">> \o e.param \o <<".">> \o toPlainStringFlat(e.body)
    [] e.type = "application" ->
         LET funcStr == IF e.func.type = "abstraction"
                        THEN <<"(">> \o toPlainStringFlat(e.func) \o <<")">>
                        ELSE toPlainStringFlat(e.func)
             argStr  == IF e.arg.type = "abstraction"
                        THEN <<"(">> \o toPlainStringFlat(e.arg) \o <<")">>
                        ELSE toPlainStringFlat(e.arg)
         IN funcStr \o <<" ">> \o argStr

RECURSIVE toPlainString(_)
toPlainString(e) ==
  CASE e.type = "variable" -> e.name
    [] e.type = "abstraction" -> <<"lambda">> \o e.param \o <<".">> \o toPlainString(e.body)
    [] e.type = "application" ->
         LET funcStr == IF e.func.type = "abstraction"
                        THEN <<"(">> \o toPlainString(e.func) \o <<")">>
                        ELSE toPlainString(e.func)
             argStr  == IF e.arg.type = "abstraction"
                        THEN <<"(">> \o toPlainString(e.arg) \o <<")">>
                        ELSE toPlainString(e.arg)
         IN <<"(">> \o funcStr \o <<" ">> \o argStr \o <<")">>

----------------------------------------------------------------------------
\* Beta reduction

\* freeVariables that takes every name for free, bound or not.
RECURSIVE freeVariablesIgnoringBinders(_)
freeVariablesIgnoringBinders(e) ==
  CASE e.type = "variable" -> {e.name}
    [] e.type = "abstraction" -> freeVariablesIgnoringBinders(e.body)
    [] e.type = "application" ->
         freeVariablesIgnoringBinders(e.func) \cup freeVariablesIgnoringBinders(e.arg)

RECURSIVE freeVariables(_)
freeVariables(e) ==
  CASE e.type = "variable" -> {e.name}
    [] e.type = "abstraction" -> freeVariables(e.body) \ {e.param}
    [] e.type = "application" -> freeVariables(e.func) \cup freeVariables(e.arg)

\* freshName without its loop: the name is returned as it came.
freshNameStale(name, avoid) == name

\* freshName with a single test in place of its loop.
freshNameOnce(name, avoid) == IF name \in avoid THEN Append(name, "'") ELSE name

RECURSIVE freshName(_, _)
freshName(name, avoid) ==
  IF name \in avoid THEN freshName(Append(name, "'"), avoid) ELSE name

\* substitute without the test for a shadowing binder.
RECURSIVE substituteThroughShadow(_, _, _, _, _)
substituteThroughShadow(e, v, r, markAsSubstituted, sourceId) ==
  CASE e.type = "variable" ->
         IF e.name = v THEN clone(r, markAsSubstituted, sourceId) ELSE e
    [] e.type = "abstraction" ->
         Abstraction(e.param,
           substituteThroughShadow(e.body, v, r, markAsSubstituted, sourceId),
           e.fromSubstitution, e.sourceId)
    [] e.type = "application" ->
         Application(substituteThroughShadow(e.func, v, r, markAsSubstituted, sourceId),
                     substituteThroughShadow(e.arg, v, r, markAsSubstituted, sourceId),
                     e.id, e.fromSubstitution, e.sourceId)

RECURSIVE substitute(_, _, _, _, _)
substitute(e, v, r, markAsSubstituted, sourceId) ==
  CASE e.type = "variable" ->
         IF e.name = v THEN clone(r, markAsSubstituted, sourceId) ELSE e
    [] e.type = "abstraction" ->
         IF e.param = v THEN e
         ELSE LET replFree == freeVariables(r)
              IN IF e.param \in replFree
                 THEN LET allFree  == replFree \cup freeVariables(e.body) \cup {v}
                          newParam == freshName(e.param, allFree)
                          renamedBody ==
                            substitute(e.body, e.param, NewVariable(newParam), FALSE, Null)
                      IN Abstraction(newParam,
                           substitute(renamedBody, v, r, markAsSubstituted, sourceId),
                           e.fromSubstitution, e.sourceId)
                 ELSE Abstraction(e.param,
                        substitute(e.body, v, r, markAsSubstituted, sourceId),
                        e.fromSubstitution, e.sourceId)
    [] e.type = "application" ->
         Application(substitute(e.func, v, r, markAsSubstituted, sourceId),
                     substitute(e.arg, v, r, markAsSubstituted, sourceId),
                     e.id, e.fromSubstitution, e.sourceId)

isRedex(e) == e.type = "application" /\ e.func.type = "abstraction"

\* numberFrom visiting arg before func.
RECURSIVE numberFromArgFirst(_, _)
numberFromArgFirst(e, val) ==
  CASE e.type = "variable" -> [expr |-> e, val |-> val]
    [] e.type = "abstraction" ->
         LET b == numberFromArgFirst(e.body, val)
         IN [expr |-> Abstraction(e.param, b.expr, e.fromSubstitution, e.sourceId),
             val |-> b.val]
    [] e.type = "application" ->
         LET id  == IF isRedex(e) THEN val ELSE Null
             v1  == IF isRedex(e) THEN val + 1 ELSE val
             a   == numberFromArgFirst(e.arg, v1)
             f   == numberFromArgFirst(e.func, a.val)
         IN [expr |-> Application(f.expr, a.expr, id, e.fromSubstitution, e.sourceId),
             val |-> f.val]

\* numberFrom passing over the redexes that carry a provenance mark.
RECURSIVE numberFromSkippingMarked(_, _)
numberFromSkippingMarked(e, val) ==
  CASE e.type = "variable" -> [expr |-> e, val |-> val]
    [] e.type = "abstraction" ->
         LET b == numberFromSkippingMarked(e.body, val)
         IN [expr |-> Abstraction(e.param, b.expr, e.fromSubstitution, e.sourceId),
             val |-> b.val]
    [] e.type = "application" ->
         LET counted == isRedex(e) /\ ~e.fromSubstitution
             id  == IF counted THEN val ELSE Null
             v1  == IF counted THEN val + 1 ELSE val
             f   == numberFromSkippingMarked(e.func, v1)
             a   == numberFromSkippingMarked(e.arg, f.val)
         IN [expr |-> Application(f.expr, a.expr, id, e.fromSubstitution, e.sourceId),
             val |-> a.val]

\* numberFrom giving an id to every Application, redex or not.
RECURSIVE numberFromEveryApplication(_, _)
numberFromEveryApplication(e, val) ==
  CASE e.type = "variable" -> [expr |-> e, val |-> val]
    [] e.type = "abstraction" ->
         LET b == numberFromEveryApplication(e.body, val)
         IN [expr |-> Abstraction(e.param, b.expr, e.fromSubstitution, e.sourceId),
             val |-> b.val]
    [] e.type = "application" ->
         LET f == numberFromEveryApplication(e.func, val + 1)
             a == numberFromEveryApplication(e.arg, f.val)
         IN [expr |-> Application(f.expr, a.expr, val, e.fromSubstitution, e.sourceId),
             val |-> a.val]

\* numberRedexes with its counter threaded through: the numbered tree and the
\* counter's value after the traversal.
RECURSIVE numberFrom(_, _)
numberFrom(e, val) ==
  CASE e.type = "variable" -> [expr |-> e, val |-> val]
    [] e.type = "abstraction" ->
         LET b == numberFrom(e.body, val)
         IN [expr |-> Abstraction(e.param, b.expr, e.fromSubstitution, e.sourceId),
             val |-> b.val]
    [] e.type = "application" ->
         LET id  == IF isRedex(e) THEN val ELSE Null
             v1  == IF isRedex(e) THEN val + 1 ELSE val
             f   == numberFrom(e.func, v1)
             a   == numberFrom(e.arg, f.val)
         IN [expr |-> Application(f.expr, a.expr, id, e.fromSubstitution, e.sourceId),
             val |-> a.val]

\* numberRedexes with a counter that starts one too low.
numberRedexesFromZero(e) == numberFrom(e, 0).expr

numberRedexes(e) == numberFrom(e, 1).expr

\* clearSubstitutionMarks that resets the root only.
clearSubstitutionMarksShallow(e) ==
  CASE e.type = "variable" -> Variable(e.name, FALSE, Null)
    [] e.type = "abstraction" -> Abstraction(e.param, e.body, FALSE, Null)
    [] e.type = "application" -> Application(e.func, e.arg, e.id, FALSE, Null)

RECURSIVE clearSubstitutionMarks(_)
clearSubstitutionMarks(e) ==
  CASE e.type = "variable" -> Variable(e.name, FALSE, Null)
    [] e.type = "abstraction" ->
         Abstraction(e.param, clearSubstitutionMarks(e.body), FALSE, Null)
    [] e.type = "application" ->
         Application(clearSubstitutionMarks(e.func), clearSubstitutionMarks(e.arg),
                     e.id, FALSE, Null)

\* reduceAt rebuilding Applications without their id.
RECURSIVE reduceAtDroppingIds(_, _)
reduceAtDroppingIds(e, targetId) ==
  CASE e.type = "variable" -> e
    [] e.type = "abstraction" ->
         Abstraction(e.param, reduceAtDroppingIds(e.body, targetId),
                     e.fromSubstitution, e.sourceId)
    [] e.type = "application" ->
         IF e.id = targetId /\ isRedex(e)
         THEN substitute(e.func.body, e.func.param, e.arg, TRUE, targetId)
         ELSE Application(reduceAtDroppingIds(e.func, targetId),
                          reduceAtDroppingIds(e.arg, targetId),
                          Null, e.fromSubstitution, e.sourceId)

\* reduceAt contracting the first redex it meets, whatever its id.
RECURSIVE reduceAtAnyRedex(_, _)
reduceAtAnyRedex(e, targetId) ==
  CASE e.type = "variable" -> e
    [] e.type = "abstraction" ->
         Abstraction(e.param, reduceAtAnyRedex(e.body, targetId),
                     e.fromSubstitution, e.sourceId)
    [] e.type = "application" ->
         IF isRedex(e)
         THEN substitute(e.func.body, e.func.param, e.arg, TRUE, targetId)
         ELSE Application(reduceAtAnyRedex(e.func, targetId),
                          reduceAtAnyRedex(e.arg, targetId),
                          e.id, e.fromSubstitution, e.sourceId)

\* reduceAt substituting with the source id but without the mark.
RECURSIVE reduceAtUnmarked(_, _)
reduceAtUnmarked(e, targetId) ==
  CASE e.type = "variable" -> e
    [] e.type = "abstraction" ->
         Abstraction(e.param, reduceAtUnmarked(e.body, targetId),
                     e.fromSubstitution, e.sourceId)
    [] e.type = "application" ->
         IF e.id = targetId /\ isRedex(e)
         THEN substitute(e.func.body, e.func.param, e.arg, FALSE, targetId)
         ELSE Application(reduceAtUnmarked(e.func, targetId),
                          reduceAtUnmarked(e.arg, targetId),
                          e.id, e.fromSubstitution, e.sourceId)

\* reduceAt returning the body of the lambda without substituting the argument.
RECURSIVE reduceAtWithoutSubstitution(_, _)
reduceAtWithoutSubstitution(e, targetId) ==
  CASE e.type = "variable" -> e
    [] e.type = "abstraction" ->
         Abstraction(e.param, reduceAtWithoutSubstitution(e.body, targetId),
                     e.fromSubstitution, e.sourceId)
    [] e.type = "application" ->
         IF e.id = targetId /\ isRedex(e)
         THEN e.func.body
         ELSE Application(reduceAtWithoutSubstitution(e.func, targetId),
                          reduceAtWithoutSubstitution(e.arg, targetId),
                          e.id, e.fromSubstitution, e.sourceId)

RECURSIVE reduceAt(_, _)
reduceAt(e, targetId) ==
  CASE e.type = "variable" -> e
    [] e.type = "abstraction" ->
         Abstraction(e.param, reduceAt(e.body, targetId), e.fromSubstitution, e.sourceId)
    [] e.type = "application" ->
         IF e.id = targetId /\ isRedex(e)
         THEN substitute(e.func.body, e.func.param, e.arg, TRUE, targetId)
         ELSE Application(reduceAt(e.func, targetId), reduceAt(e.arg, targetId),
                          e.id, e.fromSubstitution, e.sourceId)

\* The redexes in traversal order, as {id, expr} entries.
RECURSIVE getRedexes(_)
getRedexes(e) ==
  CASE e.type = "variable" -> <<>>
    [] e.type = "abstraction" -> getRedexes(e.body)
    [] e.type = "application" ->
         (IF isRedex(e) THEN <<[id |-> e.id, expr |-> e]>> ELSE <<>>)
           \o getRedexes(e.func) \o getRedexes(e.arg)

RECURSIVE getRedexCount(_)
getRedexCount(e) ==
  CASE e.type = "variable" -> 0
    [] e.type = "abstraction" -> getRedexCount(e.body)
    [] e.type = "application" ->
         (IF isRedex(e) THEN 1 ELSE 0) + getRedexCount(e.func) + getRedexCount(e.arg)

----------------------------------------------------------------------------
\* Variable usage detection

RECURSIVE variableAppearsIn(_, _)
variableAppearsIn(e, v) ==
  CASE e.type = "variable" -> e.name = v
    [] e.type = "abstraction" ->
         IF e.param = v THEN FALSE ELSE variableAppearsIn(e.body, v)
    [] e.type = "application" ->
         variableAppearsIn(e.func, v) \/ variableAppearsIn(e.arg, v)

\* isArgumentUsed without the look into the body.
isArgumentUsedAlways(redexExpr) == isRedex(redexExpr)

isArgumentUsed(redexExpr) ==
  IF ~isRedex(redexExpr) THEN FALSE
  ELSE variableAppearsIn(redexExpr.func.body, redexExpr.func.param)

\* findVariableUses looking through a shadowing binder.
RECURSIVE findVariableUsesThroughShadow(_, _)
findVariableUsesThroughShadow(e, v) ==
  CASE e.type = "variable" -> IF e.name = v THEN <<e>> ELSE <<>>
    [] e.type = "abstraction" -> findVariableUsesThroughShadow(e.body, v)
    [] e.type = "application" ->
         findVariableUsesThroughShadow(e.func, v) \o findVariableUsesThroughShadow(e.arg, v)

RECURSIVE findVariableUses(_, _)
findVariableUses(e, v) ==
  CASE e.type = "variable" -> IF e.name = v THEN <<e>> ELSE <<>>
    [] e.type = "abstraction" ->
         IF e.param # v THEN findVariableUses(e.body, v) ELSE <<>>
    [] e.type = "application" ->
         findVariableUses(e.func, v) \o findVariableUses(e.arg, v)

getParameterUses(redexExpr) ==
  IF ~isRedex(redexExpr) THEN <<>>
  ELSE findVariableUses(redexExpr.func.body, redexExpr.func.param)

----------------------------------------------------------------------------
\* Linking logic

\* The traversal without its inSubstitution flag: every marked node is pushed.
RECURSIVE traverseSubstitutionsNested(_, _)
traverseSubstitutionsNested(e, inSubstitution) ==
  LET here == IF e.fromSubstitution THEN <<[sourceId |-> e.sourceId, node |-> e]>> ELSE <<>>
  IN CASE e.type = "variable" -> here
       [] e.type = "abstraction" -> here \o traverseSubstitutionsNested(e.body, FALSE)
       [] e.type = "application" ->
            here \o traverseSubstitutionsNested(e.func, FALSE)
                 \o traverseSubstitutionsNested(e.arg, FALSE)

\* The traversal of getSubstitutions: the nodes pushed, in traversal order, each
\* with the key (its sourceId) of the list it is pushed to.
RECURSIVE traverseSubstitutions(_, _)
traverseSubstitutions(e, inSubstitution) ==
  LET starts == e.fromSubstitution /\ ~inSubstitution
      inside == inSubstitution \/ starts
      here   == IF starts THEN <<[sourceId |-> e.sourceId, node |-> e]>> ELSE <<>>
  IN CASE e.type = "variable" -> here
       [] e.type = "abstraction" -> here \o traverseSubstitutions(e.body, inside)
       [] e.type = "application" ->
            here \o traverseSubstitutions(e.func, inside)
                 \o traverseSubstitutions(e.arg, inside)

RECURSIVE NodesOfKey(_, _)
NodesOfKey(entries, key) ==
  IF entries = <<>> THEN <<>>
  ELSE (IF Head(entries).sourceId = key THEN <<Head(entries).node>> ELSE <<>>)
         \o NodesOfKey(Tail(entries), key)

\* The Map returned by getSubstitutions: its keys and the list under each key.
getSubstitutions(e) ==
  LET entries == traverseSubstitutions(e, FALSE)
      keys    == {entries[i].sourceId : i \in DOMAIN entries}
  IN [k \in keys |-> NodesOfKey(entries, k)]

\* substitutions.get(reducedId) || []
SubstitutionsGet(subs, key) == IF key \in DOMAIN subs THEN subs[key] ELSE <<>>

\* getRedex that returns the first redex whatever its id.
RECURSIVE getRedexIgnoringId(_, _)
getRedexIgnoringId(e, redexId) ==
  CASE e.type = "variable" -> [found |-> FALSE]
    [] e.type = "abstraction" -> getRedexIgnoringId(e.body, redexId)
    [] e.type = "application" ->
         IF isRedex(e) THEN [found |-> TRUE, node |-> e]
         ELSE LET f == getRedexIgnoringId(e.func, redexId)
              IN IF f.found THEN f ELSE getRedexIgnoringId(e.arg, redexId)

\* The result of getRedex: found = FALSE stands for the null result.
RECURSIVE getRedex(_, _)
getRedex(e, redexId) ==
  CASE e.type = "variable" -> [found |-> FALSE]
    [] e.type = "abstraction" -> getRedex(e.body, redexId)
    [] e.type = "application" ->
         IF e.id = redexId /\ isRedex(e) THEN [found |-> TRUE, node |-> e]
         ELSE LET f == getRedex(e.func, redexId)
              IN IF f.found THEN f ELSE getRedex(e.arg, redexId)

getRedexArg(e, redexId) ==
  LET r == getRedex(e, redexId)
  IN IF r.found THEN [found |-> TRUE, node |-> r.node.arg] ELSE [found |-> FALSE]

getFullLinkingInfo(beforeExpr, afterExpr, reducedId) ==
  LET redex == getRedex(beforeExpr, reducedId)
      substitutedNodes == SubstitutionsGet(getSubstitutions(afterExpr), reducedId)
  IN [sourceArg |-> IF redex.found THEN [found |-> TRUE, node |-> redex.node.arg]
                    ELSE [found |-> FALSE],
      parameterUses |-> IF redex.found THEN getParameterUses(redex.node) ELSE <<>>,
      substitutedNodes |-> substitutedNodes,
      sourceId |-> reducedId,
      hasSubstitutions |-> Len(substitutedNodes) > 0,
      wasUsed |-> IF redex.found THEN isArgumentUsed(redex.node) ELSE FALSE]

getLinkingInfo(beforeExpr, afterExpr, reducedId) ==
  LET redex == getRedex(beforeExpr, reducedId)
      substitutedNodes == SubstitutionsGet(getSubstitutions(afterExpr), reducedId)
  IN [sourceArg |-> IF redex.found THEN [found |-> TRUE, node |-> redex.node.arg]
                    ELSE [found |-> FALSE],
      substitutedNodes |-> substitutedNodes,
      sourceId |-> reducedId,
      hasSubstitutions |-> Len(substitutedNodes) > 0,
      wasUsed |-> IF redex.found THEN isArgumentUsed(redex.node) ELSE FALSE]

\* The linkingInfo of a step: found = FALSE stands for null.
NoLinkingInfo == [found |-> FALSE]

\* buildLinkingChain that always links a step to the first step of the history.
buildLinkingChainFromFirst(history) ==
  [index \in 1..Len(history) |->
     [expr |-> history[index].expr,
      reducedId |-> history[index].reducedId,
      linkingInfo |->
        IF index > 1 /\ history[index].reducedId # Null
        THEN [found |-> TRUE,
              info |-> getLinkingInfo(history[1].expr, history[index].expr,
                                      history[index].reducedId)]
        ELSE NoLinkingInfo]]

\* steps.map: sequences count from 1, so the source's index > 0 is index > 1.
buildLinkingChain(history) ==
  [index \in 1..Len(history) |->
     [expr |-> history[index].expr,
      reducedId |-> history[index].reducedId,
      linkingInfo |->
        IF index > 1 /\ history[index].reducedId # Null
        THEN [found |-> TRUE,
              info |-> getLinkingInfo(history[index - 1].expr, history[index].expr,
                                      history[index].reducedId)]
        ELSE NoLinkingInfo]]

----------------------------------------------------------------------------
\* Bounds of the exploration

\* Largest number of nodes of a tree built directly with the constructors.
MaxSize == 5

\* Largest number of nodes of a tree and of a replacement handed to substitute
\* directly.
MaxSubstSize == 4

MaxReplSize == 3

\* Largest target id handed to reduceAt.
MaxTarget == 3

\* Trees larger than this are not reduced further.
MaxNodes == 16

\* The source id handed to substitute directly, and the source id of the
\* substitution a replacement went through before.
DirectSid == 7

EarlierSid == 9

NameX == <<"x">>

NameX1 == <<"x", "'">>

Names == {NameX, NameX1}

RECURSIVE Size(_)
Size(e) ==
  CASE e.type = "variable" -> 1
    [] e.type = "abstraction" -> 1 + Size(e.body)
    [] e.type = "application" -> 1 + Size(e.func) + Size(e.arg)

\* The trees of exactly n nodes over Names, built with the constructors' defaults.
RECURSIVE TermsOfSize(_)
TermsOfSize(n) ==
  IF n = 1 THEN {NewVariable(v) : v \in Names}
  ELSE {NewAbstraction(p, b) : p \in Names, b \in TermsOfSize(n - 1)}
       \cup UNION {{NewApplication(f, a) : f \in TermsOfSize(i),
                                           a \in TermsOfSize(n - 1 - i)} :
                   i \in 1..(n - 2)}

TermsUpTo(n) == UNION {TermsOfSize(k) : k \in 1..n}

\* Applications built with an explicit id argument on a node that is no redex.
StaleIdTrees ==
  {Application(NewVariable(v), a, i, FALSE, Null) :
     v \in Names, a \in TermsUpTo(MaxSize - 2), i \in {MaxTarget}}

InitTrees == TermsUpTo(MaxSize) \cup StaleIdTrees

BaseReplacements == TermsUpTo(MaxReplSize)

\* Replacements: fresh trees, and trees that went through an earlier marked
\* substitution (source id EarlierSid) whose marks were not cleared.
Replacements ==
  BaseReplacements
    \cup {substitute(b, v, NewVariable(v), TRUE, EarlierSid) :
            b \in BaseReplacements, v \in Names}

TargetIds == {Null} \cup 1..MaxTarget

\* The texts handed to parse: the catalogue's examples and the tests' inputs.
TextIdentity == <<"(", "\\", "x", ".", "x", ")", " ", "h", "e", "l", "l", "o">>

TextK ==
  <<"(", "\\", "x", ".", "\\", "y", ".", "x", ")", " ",
    "f", "i", "r", "s", "t", " ", "s", "e", "c", "o", "n", "d">>

TextOmega ==
  <<"(", "\\", "x", ".", "x", " ", "x", ")", " ",
    "(", "\\", "x", ".", "x", " ", "x", ")">>

TextSelfApp == <<"(", "\\", "x", ".", "x", " ", "x", ")", " ", "a", "r", "g">>

TextDiscard == <<"(", "\\", "x", ".", "y", ")", " ", "a", "r", "g">>

TextShadow == <<"(", "\\", "x", ".", "\\", "x", ".", "x", ")", " ", "h", "e", "l", "l", "o">>

TextCapture ==
  <<"(", "lambda", "x", ".", "(", "lambda", "x", "'", ".", "x", " ", "x", "'", ")", ")",
    " ", "x", "'">>

TextBooleanOr ==
  <<"(", "\\", "p", ".", "\\", "q", ".", "p", " ", "p", " ", "q", ")", " ",
    "(", "\\", "x", ".", "\\", "y", ".", "y", ")", " ",
    "(", "\\", "x", ".", "\\", "y", ".", "x", ")">>

\* A custom input with a redex at the root, one under its func and one under its arg.
TextNested ==
  <<"(", "\\", "f", ".", "(", "\\", "x", ".", "x", ")", " ", "f", ")", " ",
    "(", "(", "\\", "x", ".", "x", ")", " ", "y", ")">>

\* The parser tests' known cases and whitespace cases.
TextArgLambda == <<"f", " ", "(", "lambda", "x", ".", "x", ")">>

TextChain == <<"a", " ", "b", " ", "c">>

TextNoSpace == <<"(", "lambda", "x", ".", "x", ")", "y">>

TextSpacedDot == <<"(", "lambda", "x", " ", ".", " ", "x", ")", " ", " ", "y">>

TextPadded == <<" ", " ", "(", "lambda", "x", ".", "x", ")", " ", "y", " ", " ">>

TextLambdaBodyApp == <<"lambda", "x", ".", "lambda", "y", ".", "x", " ", "y">>

TextSpacedParens == <<"(", " ", " ", "a", " ", " ", " ", "b", " ", " ", ")">>

\* The other examples of the menu.
TextS ==
  <<"(", "\\", "x", ".", "\\", "y", ".", "\\", "z", ".", "x", " ", "z",
    " ", "(", "y", " ", "z", ")", ")", " ", "a", " ", "b", " ", "c">>

TextChurchTwo ==
  <<"(", "\\", "f", ".", "\\", "x", ".", "f", " ", "(", "f", " ", "x", ")",
    ")", " ", "(", "\\", "n", ".", "s", "u", "c", "c", " ", "n", ")", " ",
    "z", "e", "r", "o">>

TextBooleanAnd ==
  <<"(", "\\", "p", ".", "\\", "q", ".", "p", " ", "q", " ", "p", ")", " ",
    "(", "\\", "x", ".", "\\", "y", ".", "x", ")", " ", "(", "\\", "x",
    ".", "\\", "y", ".", "y", ")">>

TextChurchAddition ==
  <<"(", "\\", "m", ".", "\\", "n", ".", "\\", "f", ".", "\\", "x", ".",
    "m", " ", "f", " ", "(", "n", " ", "f", " ", "x", ")", ")", " ", "(",
    "\\", "f", ".", "\\", "x", ".", "f", " ", "(", "f", " ", "x", ")", ")",
    " ", "(", "\\", "f", ".", "\\", "x", ".", "f", " ", "(", "f", " ", "x",
    ")", ")", " ", "s", " ", "z">>

\* The menu of examples, in the order of the source.
EXAMPLES ==
  <<TextIdentity, TextK, TextS, TextChurchTwo, TextBooleanAnd, TextBooleanOr,
    TextChurchAddition, TextOmega>>

\* The texts of the grammar handed to parse.
Texts ==
  {TextIdentity, TextK, TextOmega, TextSelfApp, TextDiscard, TextShadow,
   TextCapture, TextBooleanOr, TextNested, TextArgLambda, TextChain,
   TextNoSpace, TextSpacedDot, TextPadded, TextLambdaBodyApp, TextSpacedParens}

\* The parser tests' invalid inputs.
TextOpenParen == <<"(">>

TextCloseParen == <<")">>

TextNoDot == <<"lambda", "x">>

TextNoParam == <<"lambda", ".", "x">>

TextUnclosed == <<"(", "a", " ", "b">>

TextExtraClose == <<"a", " ", "b", ")">>

TextEmpty == <<>>

TextBlank == <<" ", " ", " ">>

invalidInputs ==
  {TextOpenParen, TextCloseParen, TextNoDot, TextNoParam, TextUnclosed,
   TextExtraClose, TextEmpty, TextBlank}

\* Lambdas whose parameter does not start with a letter.
TextDigitParam == <<"lambda", "1", ".", "x">>

TextUnderscoreParam == <<"lambda", "_", ".", "x">>

TextApostropheParam == <<"\\", "'", ".", "x">>

NonLetterParamTexts == {TextDigitParam, TextUnderscoreParam, TextApostropheParam}

ParseInputs == Texts \cup invalidInputs \cup NonLetterParamTexts

\* Largest number of apostrophes on a name of an avoid set.
MaxPrimes == 3

\* The name followed by k apostrophes.
RECURSIVE Primed(_, _)
Primed(name, k) == IF k = 0 THEN name ELSE Append(Primed(name, k - 1), "'")

NameY == <<"y">>

AvoidSets == SUBSET ({Primed(NameX, k) : k \in 0..MaxPrimes} \cup {NameY})

\* Largest number of steps kept in a reduction history.
MaxSteps == 3

----------------------------------------------------------------------------
\* The state machine: a current tree and the operation that produced it

NoName == <<>>

NoTree == NewVariable(NoName)

NoText == <<>>

NoError == [ok |-> TRUE]

NoSteps == <<>>

\* No line was entered at the reduce prompt yet.
NoCommand == <<"none">>

\* A session starts with nothing built yet, or with a tree built with the
\* constructors.
Init ==
  /\ \/ expr = NoTree /\ op = "start"
     \/ expr \in InitTrees /\ op = "new"
  /\ before = expr
  /\ target = Null
  /\ varName = NoName
  /\ replacement = NoTree
  /\ markArg = FALSE
  /\ origin = "constructed"
  /\ inputText = NoText
  /\ printed = NoText
  /\ error = NoError
  /\ avoidNames = {}
  /\ fresh = NoName
  /\ steps = NoSteps
  /\ chain = NoSteps
  /\ shown = NoTree
  /\ command = NoCommand
  /\ usedNullTarget = FALSE

\* The operations after which the tree is worked on further.
CanReduce == op \in {"new", "parse", "number", "clear", "reduce", "step"}

\* A text is parsed at the start of a session.  parse either returns the tree
\* or throws; when it throws there is no tree and the error is kept.
Parse(input) ==
  /\ op = "start"
  /\ inputText' = input
  /\ \E result \in {parse(input)} :
       IF result.ok
       THEN /\ expr' = result.expr
            /\ before' = result.expr
            /\ op' = "parse"
            /\ error' = NoError
            /\ origin' = "parsed"
       ELSE /\ UNCHANGED <<expr, before, origin>>
            /\ op' = "error"
            /\ error' = result
  /\ target' = Null
  /\ varName' = NoName
  /\ replacement' = NoTree
  /\ markArg' = FALSE
  /\ UNCHANGED <<printed, avoidNames, fresh, steps, chain>>
  /\ UNCHANGED <<shown, command, usedNullTarget>>

\* The parser tests' round trip: the tree is printed and the print is parsed;
\* error tells whether that parse threw.
Reparse ==
  /\ op \in {"new", "parse"}
  /\ \E stringified \in {toPlainString(expr)} :
       /\ printed' = stringified
       /\ \E result \in {parse(stringified)} :
            IF result.ok
            THEN expr' = result.expr /\ error' = NoError
            ELSE UNCHANGED expr /\ error' = result
  /\ before' = expr
  /\ op' = "reparse"
  /\ UNCHANGED <<target, varName, replacement, markArg, origin, inputText,
                 avoidNames, fresh, steps, chain>>
  /\ UNCHANGED <<shown, command, usedNullTarget>>

\* Numbering the tree that parse returned is the linking tests' setup: a
\* reduction history starts there, with reducedId null.
NumberRedexes ==
  /\ CanReduce
  /\ expr' = numberRedexes(expr)
  /\ before' = expr
  /\ op' = "number"
  /\ target' = Null
  /\ varName' = NoName
  /\ replacement' = NoTree
  /\ markArg' = FALSE
  /\ steps' = IF op = "parse"
              THEN <<[expr |-> numberRedexes(expr), reducedId |-> Null]>>
              ELSE NoSteps
  /\ UNCHANGED <<origin, inputText, printed, error, avoidNames, fresh, chain>>
  /\ UNCHANGED <<shown, command, usedNullTarget>>

ClearSubstitutionMarks ==
  /\ CanReduce
  /\ expr' = clearSubstitutionMarks(expr)
  /\ before' = expr
  /\ op' = "clear"
  /\ target' = Null
  /\ varName' = NoName
  /\ replacement' = NoTree
  /\ markArg' = FALSE
  /\ steps' = NoSteps
  /\ UNCHANGED <<origin, inputText, printed, error, avoidNames, fresh, chain>>
  /\ UNCHANGED <<shown, command, usedNullTarget>>

\* The caller's reduction history, as the linking tests build it: after the
\* tree the reductions started from, every result with the id that was
\* reduced.  No history is kept without a setup, nor beyond MaxSteps steps.
Recorded(result, reducedId) ==
  IF steps # NoSteps /\ Len(steps) < MaxSteps
  THEN Append(steps, [expr |-> result, reducedId |-> reducedId])
  ELSE NoSteps

ReduceAt(targetId) ==
  /\ CanReduce
  /\ Size(expr) <= MaxNodes
  /\ expr' = reduceAt(expr, targetId)
  /\ before' = expr
  /\ op' = "reduce"
  /\ target' = targetId
  /\ varName' = NoName
  /\ replacement' = NoTree
  /\ markArg' = FALSE
  /\ steps' = Recorded(reduceAt(expr, targetId), targetId)
  /\ UNCHANGED <<origin, inputText, printed, error, avoidNames, fresh, chain>>
  /\ usedNullTarget' = (usedNullTarget \/ targetId = Null)
  /\ UNCHANGED <<shown, command>>

\* reduceStep that keeps the marks of the step before.
reduceStepWithoutClear(e, redexId) ==
  numberRedexes(reduceAt(numberRedexes(e), redexId))

\* reduceStep that clears and renumbers but reduces nothing.
reduceStepWithoutReduceAt(e, redexId) ==
  CHOOSE result \in
    {numberRedexes(numbered) :
       numbered \in {numberRedexes(cleared) :
         cleared \in {clearSubstitutionMarks(e)}}} : TRUE

\* The tests' reduceStep helper: cleared, numbered and reduced are computed
\* once each, in this order, and the reduced tree is numbered again.
reduceStep(e, redexId) ==
  CHOOSE result \in
    {numberRedexes(reduced) :
       reduced \in {reduceAt(numbered, redexId) :
         numbered \in {numberRedexes(cleared) :
           cleared \in {clearSubstitutionMarks(e)}}}} : TRUE

ReduceStep(redexId) ==
  /\ CanReduce
  /\ Size(expr) <= MaxNodes
  /\ expr' = reduceStep(expr, redexId)
  /\ before' = expr
  /\ op' = "step"
  /\ target' = redexId
  /\ varName' = NoName
  /\ replacement' = NoTree
  /\ markArg' = FALSE
  /\ steps' = Recorded(reduceStep(expr, redexId), redexId)
  /\ UNCHANGED <<origin, inputText, printed, error, avoidNames, fresh, chain>>
  /\ UNCHANGED <<shown, command, usedNullTarget>>

\* The linking chain of the history recorded so far.
BuildLinkingChain ==
  /\ op \in {"reduce", "step"}
  /\ steps # NoSteps
  /\ chain' = buildLinkingChain(steps)
  /\ op' = "chain"
  /\ UNCHANGED <<expr, before, target, varName, replacement, markArg, origin,
                 inputText, printed, error, avoidNames, fresh, steps>>
  /\ UNCHANGED <<shown, command, usedNullTarget>>

\* A direct call of substitute on a tree as built; its result is not reduced
\* further.
Substitute(v, r, markAsSubstituted, sourceId) ==
  /\ op = "new"
  /\ Size(expr) <= MaxSubstSize
  /\ expr' = substitute(expr, v, r, markAsSubstituted, sourceId)
  /\ before' = expr
  /\ op' = "substitute"
  /\ target' = sourceId
  /\ varName' = v
  /\ replacement' = r
  /\ markArg' = markAsSubstituted
  /\ UNCHANGED <<origin, inputText, printed, error, avoidNames, fresh, steps, chain>>
  /\ UNCHANGED <<shown, command, usedNullTarget>>

\* A direct call of freshName.
FreshName(name, avoid) ==
  /\ op = "start"
  /\ varName' = name
  /\ avoidNames' = avoid
  /\ fresh' = freshName(name, avoid)
  /\ op' = "fresh"
  /\ UNCHANGED <<expr, before, target, replacement, markArg, origin,
                 inputText, printed, error, steps, chain>>
  /\ UNCHANGED <<shown, command, usedNullTarget>>

----------------------------------------------------------------------------
\* The command line loop

DigitValue(char) ==
  CASE char = "0" -> 0 [] char = "1" -> 1 [] char = "2" -> 2 [] char = "3" -> 3
    [] char = "4" -> 4 [] char = "5" -> 5 [] char = "6" -> 6 [] char = "7" -> 7
    [] char = "8" -> 8 [] char = "9" -> 9

\* The longest run of digits a text starts with.
RECURSIVE LeadingDigits(_)
LeadingDigits(string) ==
  IF string # <<>> /\ Head(string) \in Digits
  THEN <<Head(string)>> \o LeadingDigits(Tail(string))
  ELSE <<>>

RECURSIVE DecimalValue(_, _)
DecimalValue(digits, acc) ==
  IF digits = <<>> THEN acc
  ELSE DecimalValue(Tail(digits), 10 * acc + DigitValue(Head(digits)))

NaN == [nan |-> TRUE]

\* parseInt(string, 10): leading whitespace is skipped, a sign is taken, the
\* digits up to the first other character are read; NaN when there is none.
parseInt(string) ==
  LET trimmed == trimStart(string)
      signed == trimmed # <<>> /\ Head(trimmed) \in {"+", "-"}
      digits == LeadingDigits(IF signed THEN Tail(trimmed) ELSE trimmed)
      magnitude == DecimalValue(digits, 0)
  IN IF digits = <<>> THEN NaN
     ELSE [nan |-> FALSE,
           value |-> IF signed /\ Head(trimmed) = "-" THEN 0 - magnitude ELSE magnitude]

isQuit(trimmed) == trimmed \in {<<"q">>, <<"q", "u", "i", "t">>, <<"e", "x", "i", "t">>}

isHelp(trimmed) == trimmed \in {<<"h">>, <<"h", "e", "l", "p">>}

isReset(trimmed) == trimmed \in {<<"r">>, <<"r", "e", "s", "e", "t">>}

\* The selection is accepted: !isNaN(num) && num >= 0 && num <= EXAMPLES.length.
isExampleChoice(num) == ~num.nan /\ num.value >= 0 /\ num.value <= Len(EXAMPLES)

\* The range test of the reduce prompt that lets every positive number through.
isRedexChoiceUnbounded(num, redexCount) == ~num.nan /\ num.value >= 1

\* The number is let through to reduceAt:
\* !(isNaN(num) || num < 1 || num > redexCount).
isRedexChoice(num, redexCount) ==
  ~(num.nan \/ num.value < 1 \/ num.value > redexCount)

\* The lines typed at the selection prompt, at the custom prompt and at the
\* reduce prompt.
MenuLines ==
  {<<"q">>, <<"h">>, <<>>, <<"0">>, <<"1">>, <<"2">>, <<"3">>, <<"4">>, <<"5">>,
   <<"6">>, <<"7">>, <<"8">>, <<"9">>, <<"x">>}

CustomLines ==
  {<<>>, <<"e", "x", "i", "t">>, TextNoDot, TextLambdaBodyApp, TextNested,
   <<" ">> \o TextCapture \o <<" ">>}

PromptLines ==
  {<<"q">>, <<"h", "e", "l", "p">>, <<"r">>, <<"r", "e", "s", "e", "t">>, <<>>,
   <<"0">>, <<"1">>, <<"2">>, <<"3">>, <<" ", "1", " ">>, <<"2", "a">>,
   <<"-", "1">>, <<"x", "1">>}

\* The line typed at the selection prompt picks an example or the custom
\* prompt: it is no command, not empty, and a number of the menu.
isSelection(line) ==
  /\ ~isQuit(trim(line))
  /\ ~isHelp(trim(line))
  /\ trim(line) # <<>>
  /\ isExampleChoice(parseInt(trim(line)))

\* The custom prompt is shown: 0 was selected.
asksCustom(line) == isSelection(line) /\ parseInt(trim(line)).value = 0

\* The try block is entered: an example was selected, or a custom line that
\* is neither empty nor a quit command was typed.
reachesParse(line, customInput) ==
  /\ isSelection(line)
  /\ asksCustom(line) => trim(customInput) # <<>> /\ ~isQuit(trim(customInput))

\* The text handed to parse: the custom line for 0, the example otherwise.
exprStringOf(line, customInput) ==
  IF asksCustom(line) THEN trim(customInput) ELSE EXAMPLES[parseInt(trim(line)).value]

\* The loop ends on a quit command at either prompt.
quitsAtMenu(line, customInput) ==
  isQuit(trim(line)) \/ (asksCustom(line) /\ isQuit(trim(customInput)))

\* One pass through the loop with currentExpr null: the selection prompt,
\* the custom prompt when 0 is chosen, parse, numberRedexes and render; a
\* parse error leaves currentExpr null.
CliSelect(line, customInput) ==
  /\ op \in {"start", "cli-menu"}
  /\ ~asksCustom(line) => customInput = <<>>
  /\ command' = line
  /\ before' = expr
  /\ target' = Null
  /\ steps' = NoSteps
  /\ UNCHANGED <<varName, replacement, markArg, printed, avoidNames, fresh, chain,
                 usedNullTarget>>
  /\ IF reachesParse(line, customInput)
     THEN \E exprString \in {exprStringOf(line, customInput)} :
          \E result \in {parse(exprString)} :
            /\ inputText' = exprString
            /\ IF result.ok
               THEN \E numbered \in {numberRedexes(result.expr)} :
                      /\ expr' = numbered
                      /\ shown' = numbered
                      /\ origin' = "parsed"
                      /\ error' = NoError
                      /\ op' = IF getRedexCount(numbered) = 0
                               THEN "cli-exit" ELSE "cli-prompt"
               ELSE /\ error' = result
                    /\ op' = "cli-menu"
                    /\ UNCHANGED <<expr, shown, origin>>
     ELSE /\ op' = IF quitsAtMenu(line, customInput) THEN "cli-exit" ELSE "cli-menu"
          /\ error' = NoError
          /\ UNCHANGED <<expr, shown, origin, inputText>>

\* One pass through the loop with currentExpr set: the reduce prompt.
CliReduce(line) ==
  /\ op = "cli-prompt"
  /\ LET redexCount == getRedexCount(expr)
         trimmed == trim(line)
         num == parseInt(trimmed)
         word == isQuit(trimmed) \/ isHelp(trimmed) \/ isReset(trimmed) \/ trimmed = <<>>
         reduces == ~word /\ isRedexChoice(num, redexCount)
         reduced == numberRedexes(reduceAt(expr, num.value))
     IN /\ reduces => Size(expr) <= MaxNodes
        /\ command' = line
        /\ before' = expr
        /\ IF reduces
           THEN /\ target' = num.value
                /\ shown' = reduced
                /\ IF getRedexCount(reduced) = 0
                   THEN expr' = reduced /\ op' = "cli-exit"
                   ELSE /\ expr' = numberRedexes(clearSubstitutionMarks(reduced))
                        /\ op' = "cli-prompt"
           ELSE /\ target' = Null
                /\ shown' = IF trimmed = <<>> THEN expr ELSE shown
                /\ expr' = IF isReset(trimmed) /\ ~isQuit(trimmed) /\ ~isHelp(trimmed)
                           THEN NoTree ELSE expr
                /\ op' = IF isQuit(trimmed) THEN "cli-exit"
                         ELSE IF isHelp(trimmed) THEN "cli-prompt"
                         ELSE IF isReset(trimmed) THEN "cli-menu"
                         ELSE "cli-prompt"
  /\ steps' = NoSteps
  /\ UNCHANGED <<varName, replacement, markArg, origin, inputText, printed, error,
                 avoidNames, fresh, chain, usedNullTarget>>

\* A pass of the loop for each line that can be typed.
CliSelectPass ==
  /\ op \in {"start", "cli-menu"}
  /\ \E line \in MenuLines, customInput \in CustomLines : CliSelect(line, customInput)

CliReducePass ==
  /\ op = "cli-prompt"
  /\ \E line \in PromptLines : CliReduce(line)

Next ==
  \/ \E input \in ParseInputs : Parse(input)
  \/ Reparse
  \/ NumberRedexes
  \/ ClearSubstitutionMarks
  \/ \E targetId \in TargetIds : ReduceAt(targetId)
  \/ \E redexId \in 1..MaxTarget : ReduceStep(redexId)
  \/ BuildLinkingChain
  \/ \E v \in Names, r \in Replacements, m \in BOOLEAN, s \in {Null, DirectSid} :
       Substitute(v, r, m, s)
  \/ \E name \in Names, avoid \in AvoidSets : FreshName(name, avoid)
  \/ CliSelectPass
  \/ CliReducePass

Spec == Init /\ [][Next]_vars

----------------------------------------------------------------------------
\* Vocabulary of the properties

\* A position in a tree: the fields followed from the root.
RECURSIVE Paths(_)
Paths(e) ==
  {<<>>} \cup
    CASE e.type = "variable" -> {}
      [] e.type = "abstraction" -> {<<"body">> \o p : p \in Paths(e.body)}
      [] e.type = "application" ->
           {<<"func">> \o p : p \in Paths(e.func)} \cup {<<"arg">> \o p : p \in Paths(e.arg)}

RECURSIVE NodeAt(_, _)
NodeAt(e, p) == IF p = <<>> THEN e ELSE NodeAt(e[Head(p)], Tail(p))

\* The positions of the free occurrences of v in e.
RECURSIVE FreeUsePaths(_, _)
FreeUsePaths(e, v) ==
  CASE e.type = "variable" -> IF e.name = v THEN {<<>>} ELSE {}
    [] e.type = "abstraction" ->
         IF e.param = v THEN {} ELSE {<<"body">> \o p : p \in FreeUsePaths(e.body, v)}
    [] e.type = "application" ->
         {<<"func">> \o p : p \in FreeUsePaths(e.func, v)}
           \cup {<<"arg">> \o p : p \in FreeUsePaths(e.arg, v)}

\* The tree without redex ids and provenance marks.
RECURSIVE Erase(_)
Erase(e) ==
  CASE e.type = "variable" -> NewVariable(e.name)
    [] e.type = "abstraction" -> NewAbstraction(e.param, Erase(e.body))
    [] e.type = "application" -> NewApplication(Erase(e.func), Erase(e.arg))

\* The nodes that carry a provenance mark.
TaggedPaths(e) ==
  {p \in Paths(e) : NodeAt(e, p).fromSubstitution \/ NodeAt(e, p).sourceId # Null}

\* The first index of name in env, 0 when it is not there.
RECURSIVE IndexOf(_, _)
IndexOf(name, env) ==
  IF env = <<>> THEN 0
  ELSE IF Head(env) = name THEN 1
  ELSE LET i == IndexOf(name, Tail(env)) IN IF i = 0 THEN 0 ELSE i + 1

\* The nameless form of a tree: a bound occurrence is the distance to its
\* binder, a free occurrence keeps its name.  Two trees are alpha-equivalent
\* iff their nameless forms are equal.
RECURSIVE Nameless(_, _)
Nameless(e, env) ==
  CASE e.type = "variable" ->
         IF IndexOf(e.name, env) = 0 THEN [k |-> "free", name |-> e.name]
         ELSE [k |-> "bound", index |-> IndexOf(e.name, env)]
    [] e.type = "abstraction" -> [k |-> "lam", body |-> Nameless(e.body, <<e.param>> \o env)]
    [] e.type = "application" ->
         [k |-> "app", func |-> Nameless(e.func, env), arg |-> Nameless(e.arg, env)]

\* The reference substitution on nameless forms: every free leaf named v is
\* replaced by the nameless form of the replacement (which has no dangling
\* index, so nothing can be captured).
RECURSIVE ReferenceSubstitution(_, _, _)
ReferenceSubstitution(t, v, r) ==
  CASE t.k = "free" -> IF t.name = v THEN r ELSE t
    [] t.k = "bound" -> t
    [] t.k = "lam" -> [k |-> "lam", body |-> ReferenceSubstitution(t.body, v, r)]
    [] t.k = "app" ->
         [k |-> "app", func |-> ReferenceSubstitution(t.func, v, r),
          arg |-> ReferenceSubstitution(t.arg, v, r)]

\* The binders on the way from the root of e to position p, innermost first.
RECURSIVE BindersAbove(_, _)
BindersAbove(e, p) ==
  IF p = <<>> THEN <<>>
  ELSE BindersAbove(e[Head(p)], Tail(p))
         \o (IF e.type = "abstraction" THEN <<e.param>> ELSE <<>>)

IsPrefix(p, q) == Len(p) <= Len(q) /\ SubSeq(q, 1, Len(p)) = p

IsStrictPrefix(p, q) == Len(p) < Len(q) /\ SubSeq(q, 1, Len(p)) = p

ApplicationPaths(e) == {p \in Paths(e) : NodeAt(e, p).type = "application"}

\* The Applications that are redexes.
RedexPaths(e) == {p \in ApplicationPaths(e) : isRedex(NodeAt(e, p))}

\* The Applications that carry the id.
CarrierPaths(e, id) == {p \in ApplicationPaths(e) : NodeAt(e, p).id = id}

\* e with the subtree at p replaced by n.
RECURSIVE ReplaceAt(_, _, _)
ReplaceAt(e, p, n) ==
  IF p = <<>> THEN n ELSE [e EXCEPT ![Head(p)] = ReplaceAt(e[Head(p)], Tail(p), n)]

\* e is a tree as numberRedexes returns it.
IsNumbered(e) == numberRedexes(e) = e

ValidRedexId(e, id) == id \in 1..getRedexCount(e)

----------------------------------------------------------------------------
\* Properties

\* C1: substitute is capture-avoiding.  For every tree, name and replacement
\* handed to substitute, no free occurrence of a variable in a copy of the
\* replacement has a binder of that name above it in the result, and the
\* result is alpha-equivalent to the reference substitution; reducing
\* (lambda x.(lambda x'.x x')) x' gives an abstraction whose renamed binder
\* does not bind the substituted x'.
C1_CaptureAvoiding ==
  /\ op = "substitute" =>
       /\ Nameless(expr, <<>>) =
            ReferenceSubstitution(Nameless(before, <<>>), varName,
                                  Nameless(replacement, <<>>))
       /\ \A p \in FreeUsePaths(before, varName) :
            \A w \in freeVariables(replacement) :
              \A q \in FreeUsePaths(replacement, w) :
                /\ NodeAt(expr, p \o q).type = "variable"
                /\ NodeAt(expr, p \o q).name = w
                /\ IndexOf(w, BindersAbove(expr, p)) = 0
  /\ (op = "reduce" /\ target = 1 /\ before = numberRedexes(parse(TextCapture).expr)) =>
       /\ expr.type = "abstraction"
       /\ expr.param # NameX1
       /\ Erase(expr.body) =
            NewApplication(NewVariable(NameX1), NewVariable(expr.param))

\* A substitution under a binder whose name is free in the replacement, with
\* the substituted name free in the binder's body: the binder was renamed.
C1_Witness ==
  /\ op = "substitute"
  /\ before.type = "abstraction"
  /\ before.param # varName
  /\ before.param \in freeVariables(replacement)
  /\ variableAppearsIn(before.body, varName)
  /\ expr.param # before.param

\* C2: on a tree just numbered, reduceAt with a valid id contracts exactly one
\* redex: exactly one Application carries the id, it is a redex, it is replaced
\* by substitute(body, param, arg, true, id), and every node outside it is
\* rebuilt with the same structure, id and marks.
C2_ReduceAtContractsOneRedex ==
  (op = "reduce" /\ IsNumbered(before) /\ ValidRedexId(before, target)) =>
    /\ Cardinality(CarrierPaths(before, target)) = 1
    /\ \A p \in CarrierPaths(before, target) :
         LET redex == NodeAt(before, p)
         IN /\ isRedex(redex)
            /\ expr = ReplaceAt(before, p,
                        substitute(redex.func.body, redex.func.param, redex.arg,
                                   TRUE, target))
            /\ \A q \in Paths(before) :
                 ~IsPrefix(p, q) =>
                   /\ q \in Paths(expr)
                   /\ NodeAt(expr, q).type = NodeAt(before, q).type
                   /\ NodeAt(expr, q).fromSubstitution = NodeAt(before, q).fromSubstitution
                   /\ NodeAt(expr, q).sourceId = NodeAt(before, q).sourceId
                   /\ NodeAt(before, q).type = "application" =>
                        NodeAt(expr, q).id = NodeAt(before, q).id

\* A redex below the root of a tree with several redexes was contracted, and
\* nodes outside it carry ids and marks.
C2_Witness ==
  /\ op = "reduce"
  /\ IsNumbered(before)
  /\ ValidRedexId(before, target)
  /\ getRedexCount(before) >= 2
  /\ <<>> \notin CarrierPaths(before, target)
  /\ TaggedPaths(before) # {}
  /\ expr # before

\* C3: reduceAt with a target id that no redex carries returns a tree equal to
\* its input, ids and marks included (also on a tree with no redex at all).
C3_ReduceAtNoOp ==
  (op = "reduce" /\ CarrierPaths(before, target) \cap RedexPaths(before) = {}) =>
    expr = before

\* reduceAt was called with an integer id beyond the redexes of a numbered tree
\* that has redexes.
C3_Witness ==
  /\ op = "reduce"
  /\ IsNumbered(before)
  /\ getRedexCount(before) >= 1
  /\ target > getRedexCount(before)
  /\ expr = before

\* C4: after numberRedexes the number of Applications with a non-null id is
\* getRedexCount, and each of 1..count is carried by exactly one Application.
C4_RedexCountInvariant ==
  op = "number" =>
    LET count    == getRedexCount(expr)
        carriers == {p \in ApplicationPaths(expr) : NodeAt(expr, p).id # Null}
    IN /\ Cardinality(carriers) = count
       /\ \A p \in carriers : NodeAt(expr, p).id \in 1..count
       /\ \A i \in 1..count : Cardinality(CarrierPaths(expr, i)) = 1

\* A tree with three redexes was numbered.
C4_Witness ==
  /\ op = "number"
  /\ getRedexCount(expr) >= 3
  /\ expr # before

\* C5: numberRedexes numbers the redexes in pre-order, func before arg, from
\* 1: a redex's id is below the id of every redex inside it, the ids under an
\* Application's func are below those under its arg, an Application that is
\* no redex gets id null, and getRedexes lists the ids 1, 2, ..., count.
C5_PreOrderNumbering ==
  op = "number" =>
    /\ \A p \in RedexPaths(expr) : \A q \in RedexPaths(expr) :
         IsStrictPrefix(p, q) => NodeAt(expr, p).id < NodeAt(expr, q).id
    /\ \A a \in ApplicationPaths(expr) :
         \A p \in RedexPaths(expr) : \A q \in RedexPaths(expr) :
           (IsPrefix(a \o <<"func">>, p) /\ IsPrefix(a \o <<"arg">>, q)) =>
             NodeAt(expr, p).id < NodeAt(expr, q).id
    /\ \A a \in ApplicationPaths(expr) :
         ~isRedex(NodeAt(expr, a)) => NodeAt(expr, a).id = Null
    /\ Len(getRedexes(expr)) = getRedexCount(expr)
    /\ \A i \in 1..Len(getRedexes(expr)) : getRedexes(expr)[i].id = i

\* A tree with a redex inside a redex and redexes under both the func and the
\* arg of one Application was numbered.
C5_Witness ==
  /\ op = "number"
  /\ \E p \in RedexPaths(expr) : \E q \in RedexPaths(expr) : IsStrictPrefix(p, q)
  /\ \E a \in ApplicationPaths(expr) :
       \E p \in RedexPaths(expr) : \E q \in RedexPaths(expr) :
         IsPrefix(a \o <<"func">>, p) /\ IsPrefix(a \o <<"arg">>, q)

\* C6: after a reduceStep on a numbered tree with a valid id, the number of
\* substituted nodes reported for the id (getSubstitutions, getLinkingInfo,
\* getFullLinkingInfo) is the number of free occurrences of the redex's
\* parameter in its body, which is the length of parameterUses.
C6_SubstitutedCountIsUseCount ==
  (op = "step" /\ IsNumbered(before) /\ ValidRedexId(before, target)) =>
    LET full  == getFullLinkingInfo(before, expr, target)
        link  == getLinkingInfo(before, expr, target)
        redex == getRedex(before, target).node
        uses  == Cardinality(FreeUsePaths(redex.func.body, redex.func.param))
    IN /\ Len(full.parameterUses) = uses
       /\ Len(SubstitutionsGet(getSubstitutions(expr), target)) = uses
       /\ Len(full.substitutedNodes) = uses
       /\ Len(link.substitutedNodes) = uses

\* A redex whose parameter occurs twice free in its body was reduced, and two
\* substituted nodes are reported.
C6_Witness ==
  /\ op = "step"
  /\ IsNumbered(before)
  /\ ValidRedexId(before, target)
  /\ Len(getFullLinkingInfo(before, expr, target).parameterUses) = 2
  /\ Len(getFullLinkingInfo(before, expr, target).substitutedNodes) = 2

\* C7: after a reduceStep on a numbered tree with a valid id, wasUsed equals
\* hasSubstitutions; when the parameter is not free in the body the result has
\* no tagged node, both are false and sourceArg is the dropped argument.
C7_WasUsedPredictsSubstitutions ==
  (op = "step" /\ IsNumbered(before) /\ ValidRedexId(before, target)) =>
    LET link  == getLinkingInfo(before, expr, target)
        redex == getRedex(before, target).node
    IN /\ link.wasUsed = link.hasSubstitutions
       /\ FreeUsePaths(redex.func.body, redex.func.param) = {} =>
            /\ TaggedPaths(expr) = {}
            /\ ~link.wasUsed
            /\ ~link.hasSubstitutions
            /\ link.sourceArg.found
            /\ link.sourceArg.node = redex.arg

\* A redex that discards its argument was reduced in a tree that carried marks.
C7_Witness ==
  /\ op = "step"
  /\ IsNumbered(before)
  /\ ValidRedexId(before, target)
  /\ TaggedPaths(before) # {}
  /\ ~getLinkingInfo(before, expr, target).wasUsed
  /\ getLinkingInfo(before, expr, target).sourceArg.found

\* C8: substitute returns an Abstraction whose param is the substituted name
\* unchanged; so reducing a redex whose body is such an Abstraction leaves the
\* body as it was, tags nothing and reports wasUsed = false, and
\* (lambda x.lambda x.x) hello reduces to lambda x.x.
C8_ShadowingRespected ==
  /\ (op = "substitute" /\ before.type = "abstraction" /\ before.param = varName) =>
       expr = before
  /\ (op = "step" /\ IsNumbered(before) /\ ValidRedexId(before, target)) =>
       LET redex == getRedex(before, target).node
           link  == getLinkingInfo(before, expr, target)
       IN (redex.func.body.type = "abstraction"
             /\ redex.func.body.param = redex.func.param) =>
            /\ TaggedPaths(expr) = {}
            /\ ~link.wasUsed
            /\ ~link.hasSubstitutions
            /\ Erase(expr) =
                 Erase(ReplaceAt(before, CHOOSE p \in CarrierPaths(before, target) : TRUE,
                                 redex.func.body))
  /\ (op = "step" /\ target = 1 /\ before = numberRedexes(parse(TextShadow).expr)) =>
       toPlainString(expr) = <<"lambda", "x", ".", "x">>

\* The outer redex of (lambda x.lambda x.x) hello was reduced.
C8_Witness ==
  /\ op = "step"
  /\ target = 1
  /\ before = numberRedexes(parse(TextShadow).expr)
  /\ toPlainString(expr) = <<"lambda", "x", ".", "x">>

\* The direct call of C8: substitute on an Abstraction that binds the name and
\* has it in its body.
C8_DirectWitness ==
  /\ op = "substitute"
  /\ before.type = "abstraction"
  /\ before.param = varName
  /\ varName \in {NodeAt(before, p).name :
                    p \in {q \in Paths(before) : NodeAt(before, q).type = "variable"}}

TextArgArg == <<"(", "a", "r", "g", " ", "a", "r", "g", ")">>

\* C9 as stated: reduceAt applied to the tree parse returns, with target 1
\* and no numbering in between, yields (arg arg) with two tagged nodes of one
\* source id, and y with no tagged node.
C9_AsStated ==
  /\ (op = "reduce" /\ target = 1 /\ before = parse(TextSelfApp).expr) =>
       /\ toPlainString(expr) = TextArgArg
       /\ Cardinality(TaggedPaths(expr)) = 2
       /\ \A p \in TaggedPaths(expr) : NodeAt(expr, p).sourceId = 1
  /\ (op = "reduce" /\ target = 1 /\ before = parse(TextDiscard).expr) =>
       /\ toPlainString(expr) = <<"y">>
       /\ TaggedPaths(expr) = {}

\* C9 amended: the reduction happens once the parsed tree is numbered;
\* applied to the tree as parse returns it (no Application has an id yet),
\* reduceAt with target 1 returns it unchanged.
C9_ReduceAfterNumbering ==
  /\ (op = "reduce" /\ target = 1 /\ before = numberRedexes(parse(TextSelfApp).expr)) =>
       /\ toPlainString(expr) = TextArgArg
       /\ Cardinality(TaggedPaths(expr)) = 2
       /\ \A p \in TaggedPaths(expr) :
            NodeAt(expr, p).sourceId = 1 /\ NodeAt(expr, p).fromSubstitution
  /\ (op = "reduce" /\ target = 1 /\ before = numberRedexes(parse(TextDiscard).expr)) =>
       /\ toPlainString(expr) = <<"y">>
       /\ TaggedPaths(expr) = {}
  /\ (op = "reduce" /\ target = 1 /\ origin = "parsed"
        /\ \E text \in Texts : before = parse(text).expr) =>
       expr = before

\* reduceAt with target 1 was applied to the numbered parse of (\x.x x) arg.
C9_Witness ==
  /\ op = "reduce"
  /\ target = 1
  /\ before = numberRedexes(parse(TextSelfApp).expr)
  /\ toPlainString(expr) = TextArgArg

\* reduceAt with target 1 was applied to the parse of (\x.x x) arg as returned.
C9_DirectWitness ==
  /\ op = "reduce"
  /\ target = 1
  /\ before = parse(TextSelfApp).expr
  /\ expr = before

\* C10 as stated: in every copy of the replacement made by substitute with a
\* non-null source id s, a node that carried a source id keeps it, only nodes
\* without one receive s, and fromSubstitution is markAsSubstituted or the
\* node's previous value.
C10_AsStated ==
  (op = "substitute" /\ target # Null) =>
    \A p \in FreeUsePaths(before, varName) : \A q \in Paths(replacement) :
      LET old  == NodeAt(replacement, q)
          copy == NodeAt(expr, p \o q)
      IN /\ copy.sourceId = (IF old.sourceId # Null THEN old.sourceId ELSE target)
         /\ copy.fromSubstitution = (markArg \/ old.fromSubstitution)

\* C10 amended: with a non-null source id s every node of the copy receives
\* s, also a node that carried another source id; a node keeps the source id
\* it carried only when s is null; fromSubstitution is markAsSubstituted or
\* the node's previous value.
C10_CloneStampsSourceId ==
  op = "substitute" =>
    \A p \in FreeUsePaths(before, varName) : \A q \in Paths(replacement) :
      LET old  == NodeAt(replacement, q)
          copy == NodeAt(expr, p \o q)
      IN /\ copy.sourceId = (IF target # Null THEN target ELSE old.sourceId)
         /\ copy.fromSubstitution = (markArg \/ old.fromSubstitution)
         /\ copy.type = old.type

\* A replacement with a node marked by an earlier substitution and a node
\* without a mark was copied twice, unmarked, under a new source id.
C10_Witness ==
  /\ op = "substitute"
  /\ target # Null
  /\ ~markArg
  /\ Cardinality(FreeUsePaths(before, varName)) = 2
  /\ \E q \in Paths(replacement) : NodeAt(replacement, q).sourceId = EarlierSid
  /\ \E q \in Paths(replacement) : NodeAt(replacement, q).sourceId = Null
  /\ replacement.type = "application"

----------------------------------------------------------------------------
\* The marked nodes with no marked node above them.
OutermostMarkedPaths(e) ==
  {p \in Paths(e) :
     /\ NodeAt(e, p).fromSubstitution
     /\ \A q \in Paths(e) : IsStrictPrefix(q, p) => ~NodeAt(e, q).fromSubstitution}

\* How often the node n is listed in seq.
Occurrences(seq, n) == Cardinality({i \in DOMAIN seq : seq[i] = n})

\* C11: getSubstitutions reports the outermost substituted nodes only.  For
\* the tree of every state, the lists of the returned map hold exactly the
\* nodes whose fromSubstitution is true and that have no proper ancestor with
\* fromSubstitution true, each as often as it occurs at such a position and
\* each under the key that is its own sourceId; no reported position lies
\* under another one, and every marked node is reported or lies under a
\* reported one.
C11_OutermostOnly ==
  LET subs     == getSubstitutions(expr)
      reported == OutermostMarkedPaths(expr)
      nodes    == {NodeAt(expr, p) : p \in Paths(expr)}
  IN /\ DOMAIN subs = {NodeAt(expr, p).sourceId : p \in reported}
     /\ \A k \in DOMAIN subs : \A n \in nodes :
          Occurrences(subs[k], n) =
            Cardinality({p \in reported : NodeAt(expr, p) = n /\ n.sourceId = k})
     /\ \A k \in DOMAIN subs : \A i \in DOMAIN subs[k] : subs[k][i] \in nodes
     /\ \A p \in reported : \A q \in reported : ~IsStrictPrefix(p, q)
     /\ \A p \in Paths(expr) :
          NodeAt(expr, p).fromSubstitution => \E q \in reported : IsPrefix(q, p)

\* A tree with a marked node under a reported node, and reported nodes under two
\* different keys.
C11_Witness ==
  LET reported == OutermostMarkedPaths(expr)
  IN /\ \E p \in reported : \E q \in Paths(expr) :
          IsStrictPrefix(p, q) /\ NodeAt(expr, q).fromSubstitution
     /\ Cardinality(DOMAIN getSubstitutions(expr)) >= 2

----------------------------------------------------------------------------
\* C12: clearSubstitutionMarks keeps the tree and drops every mark.  After
\* every call the result has the positions of the input, at every position the
\* same kind of node with the same name, parameter and Application id, at
\* every position fromSubstitution false and sourceId null, and the map of
\* getSubstitutions of the result has no key.  (The operator only reads its
\* input, as the source does; the input is kept in before.)
C12_ClearKeepsTreeDropsMarks ==
  op = "clear" =>
    /\ Paths(expr) = Paths(before)
    /\ \A p \in Paths(before) :
         LET n == NodeAt(expr, p)
             m == NodeAt(before, p)
         IN /\ n.type = m.type
            /\ m.type = "variable" => n.name = m.name
            /\ m.type = "abstraction" => n.param = m.param
            /\ m.type = "application" => n.id = m.id
            /\ n.fromSubstitution = FALSE
            /\ n.sourceId = Null
    /\ DOMAIN getSubstitutions(expr) = {}

\* Marks were cleared below the root of a tree with a numbered Application.
C12_Witness ==
  /\ op = "clear"
  /\ \E p \in Paths(before) : p # <<>> /\ NodeAt(before, p).fromSubstitution
                                        /\ NodeAt(before, p).sourceId # Null
  /\ \E p \in ApplicationPaths(before) : NodeAt(before, p).id # Null
  /\ DOMAIN getSubstitutions(before) # {}

----------------------------------------------------------------------------
\* C13: round trip.  For every tree built from the constructors over names of
\* the variable grammar, parsing the text toPlainString prints for it throws
\* nothing and returns a tree equal to it once redex ids and provenance
\* marks are left out.
C13_RoundTrip ==
  op = "reparse" /\ origin = "constructed" =>
    /\ printed = toPlainString(before)
    /\ error = NoError
    /\ Erase(expr) = Erase(before)

\* The round trip of an application whose argument is an application and of an
\* application of an abstraction to an abstraction.
C13_Witness ==
  /\ op = "reparse"
  /\ origin = "constructed"
  /\ before.type = "application"
  /\ \/ before.arg.type = "application"
     \/ before.func.type = "abstraction" /\ before.arg.type = "abstraction"
  /\ error = NoError

\* C14: canonical stability.  For every text s that parse accepts (the texts
\* handed to parse, and the prints of the trees built with the constructors),
\* printing the tree of s, parsing that print and printing again gives the
\* first print: toPlainString(parse(toPlainString(parse(s)))) equals
\* toPlainString(parse(s)).
C14_CanonicalStability ==
  op = "reparse" =>
    /\ origin = "parsed" => before = parse(inputText).expr
    /\ printed = toPlainString(before)
    /\ error = NoError
    /\ toPlainString(expr) = printed

\* A text that is not its own canonical form, with an abstraction applied to an
\* argument, went through the two prints.
C14_Witness ==
  /\ op = "reparse"
  /\ origin = "parsed"
  /\ inputText # printed
  /\ before.type = "application"
  /\ before.func.type = "abstraction"
  /\ error = NoError

----------------------------------------------------------------------------
\* The two lambda markers.
LambdaMarkers == {"lambda", "\\"}

\* The texts obtained from input by writing each lambda marker either way.
RECURSIVE NotationVariants(_)
NotationVariants(input) ==
  IF input = <<>> THEN {<<>>}
  ELSE {<<c>> \o rest :
          c \in (IF Head(input) \in LambdaMarkers THEN LambdaMarkers ELSE {Head(input)}),
          rest \in NotationVariants(Tail(input))}

\* C15: notation equivalence.  For every text that parse accepts, every text
\* obtained from it by writing some of its lambda markers the other way is
\* accepted too and gives a tree equal to the first one (names and shape; a
\* parse result carries neither ids nor marks).
C15_NotationEquivalence ==
  op = "parse" =>
    \A variant \in NotationVariants(inputText) :
      /\ parse(variant).ok
      /\ parse(variant).expr = expr
      /\ Erase(parse(variant).expr) = Erase(expr)

\* A text with two lambda markers was parsed.
C15_Witness ==
  /\ op = "parse"
  /\ Cardinality({i \in DOMAIN inputText : inputText[i] \in LambdaMarkers}) >= 2
  /\ Cardinality(NotationVariants(inputText)) >= 4
  /\ expr.type = "application"

\* C16: parse throws, and returns no tree, for each of the invalid inputs
\* "(", ")", "lambda x" without a dot, "lambda .x" without a parameter,
\* "(a b", "a b)", the empty text and the blank text: after parse was called
\* on one of them an error is held and there is still no tree.
C16_InvalidInputsRejected ==
  op \in {"parse", "error"} /\ inputText \in invalidInputs =>
    /\ op = "error"
    /\ error # NoError
    /\ ~error.ok
    /\ expr = NoTree
    /\ origin # "parsed"

\* parse threw on trailing input after a complete expression.
C16_Witness ==
  /\ op = "error"
  /\ inputText = TextExtraClose
  /\ error = ParseError(3, "Unexpected character (expected end of input)")

\* Each of the other invalid inputs was rejected as well.
C16_EmptyWitness ==
  /\ op = "error"
  /\ inputText = TextEmpty
  /\ error = ParseError(0, "Expected variable name")

\* C17 as stated: a text whose lambda parameter starts with a digit, an
\* underscore or an apostrophe is rejected by parse.
C17_AsStated ==
  op \in {"parse", "error"} /\ inputText \in NonLetterParamTexts => op = "error"

----------------------------------------------------------------------------
\* The ids looked up: null, the target ids and the source ids of direct
\* substitutions.
LookupIds == TargetIds \cup {DirectSid, EarlierSid}

\* The looked-up ids that no redex of e carries.
AbsentIds(e) ==
  {id \in LookupIds : \A p \in RedexPaths(e) : NodeAt(e, p).id # id}

\* The outermost marked nodes of e whose sourceId is id.
MarkedFrom(e, id) == {p \in OutermostMarkedPaths(e) : NodeAt(e, p).sourceId = id}

\* C18 as stated: for the trees before and after every reduction and every
\* id that no redex of the tree before carries, getRedex and getRedexArg
\* return null and both linking infos have sourceArg null, wasUsed false,
\* parameterUses empty, substitutedNodes empty and hasSubstitutions false;
\* getParameterUses of a tree that is no redex is empty.
C18_AsStated ==
  op \in {"reduce", "step"} =>
    /\ \A id \in AbsentIds(before) :
         LET info == getLinkingInfo(before, expr, id)
             full == getFullLinkingInfo(before, expr, id)
         IN /\ ~getRedex(before, id).found
            /\ ~getRedexArg(before, id).found
            /\ ~info.sourceArg.found /\ ~full.sourceArg.found
            /\ ~info.wasUsed /\ ~full.wasUsed
            /\ full.parameterUses = <<>>
            /\ info.substitutedNodes = <<>> /\ full.substitutedNodes = <<>>
            /\ ~info.hasSubstitutions /\ ~full.hasSubstitutions
    /\ ~isRedex(expr) => getParameterUses(expr) = <<>>

\* C18: lookups of an absent id.  For the trees before and after every
\* reduction and every id that no redex of the tree before carries, getRedex
\* and getRedexArg return null and both linking infos have sourceArg null,
\* wasUsed false and (the full one) parameterUses empty; substitutedNodes
\* lists the outermost marked nodes of the tree after whose sourceId is the
\* id, whatever the tree before, so it is empty and hasSubstitutions false
\* exactly when the tree after has no such node.  getParameterUses of a tree
\* that is no redex is empty.
C18_AbsentIdLookups ==
  op \in {"reduce", "step"} =>
    /\ \A id \in AbsentIds(before) :
         LET info == getLinkingInfo(before, expr, id)
             full == getFullLinkingInfo(before, expr, id)
         IN /\ ~getRedex(before, id).found
            /\ ~getRedexArg(before, id).found
            /\ ~info.sourceArg.found /\ ~full.sourceArg.found
            /\ ~info.wasUsed /\ ~full.wasUsed
            /\ full.parameterUses = <<>>
            /\ info.sourceId = id /\ full.sourceId = id
            /\ Len(info.substitutedNodes) = Cardinality(MarkedFrom(expr, id))
            /\ full.substitutedNodes = info.substitutedNodes
            /\ info.hasSubstitutions = (MarkedFrom(expr, id) # {})
            /\ full.hasSubstitutions = info.hasSubstitutions
    /\ ~isRedex(expr) => getParameterUses(expr) = <<>>

\* reduceAt was called with an id that no redex carries on a tree that still
\* has the marks of an earlier reduction of that id: the linking info has no
\* source argument and yet lists substituted nodes.
C18_Witness ==
  /\ op = "reduce"
  /\ target \in AbsentIds(before)
  /\ target # Null
  /\ ~getLinkingInfo(before, expr, target).sourceArg.found
  /\ getLinkingInfo(before, expr, target).hasSubstitutions

\* The lookups of an absent id on trees without marks: everything is empty.
C18_EmptyWitness ==
  /\ op = "reduce"
  /\ target \in AbsentIds(before)
  /\ target # Null
  /\ RedexPaths(before) # {}
  /\ getLinkingInfo(before, expr, target) =
       [sourceArg |-> [found |-> FALSE], substitutedNodes |-> <<>>,
        sourceId |-> target, hasSubstitutions |-> FALSE, wasUsed |-> FALSE]

----------------------------------------------------------------------------
\* C19 as stated: the chain has the length and order of the history, every
\* element keeps expr and reducedId of its step, the first element's
\* linkingInfo is null and the linkingInfo of every later element is
\* getLinkingInfo of the previous step's tree, this step's tree and this
\* step's reducedId.
C19_AsStated ==
  op = "chain" =>
    /\ Len(chain) = Len(steps)
    /\ \A i \in DOMAIN steps :
         /\ chain[i].expr = steps[i].expr
         /\ chain[i].reducedId = steps[i].reducedId
    /\ chain[1].linkingInfo = NoLinkingInfo
    /\ \A i \in 2..Len(steps) :
         chain[i].linkingInfo =
           [found |-> TRUE,
            info |-> getLinkingInfo(steps[i - 1].expr, steps[i].expr,
                                    steps[i].reducedId)]

\* C19: buildLinkingChain.  The chain has the length and order of the history,
\* every element keeps expr and reducedId of its step, the first element's
\* linkingInfo is null, the linkingInfo of a later element whose reducedId
\* is not null is getLinkingInfo of the previous step's tree, this step's
\* tree and this step's reducedId, and the linkingInfo of a later element
\* whose reducedId is null is null.
C19_ChainLinksPreviousStep ==
  op = "chain" =>
    /\ Len(chain) = Len(steps)
    /\ \A i \in DOMAIN steps :
         /\ chain[i].expr = steps[i].expr
         /\ chain[i].reducedId = steps[i].reducedId
    /\ chain[1].linkingInfo = NoLinkingInfo
    /\ \A i \in 2..Len(steps) :
         chain[i].linkingInfo =
           IF steps[i].reducedId # Null
           THEN [found |-> TRUE,
                 info |-> getLinkingInfo(steps[i - 1].expr, steps[i].expr,
                                         steps[i].reducedId)]
           ELSE NoLinkingInfo

\* The chain of a history of three steps in which both reductions contracted a
\* redex and the last one substituted its argument.
C19_Witness ==
  /\ op = "chain"
  /\ Len(steps) = 3
  /\ steps[1].expr # steps[2].expr
  /\ steps[2].expr # steps[3].expr
  /\ steps[2].reducedId # Null
  /\ steps[3].reducedId # Null
  /\ chain[3].linkingInfo.found
  /\ chain[3].linkingInfo.info.sourceArg.found
  /\ chain[3].linkingInfo.info.hasSubstitutions

\* The chain of a history with a later step whose reducedId is null.
C19_NullStepWitness ==
  /\ op = "chain"
  /\ \E i \in 2..Len(steps) :
       steps[i].reducedId = Null /\ chain[i].linkingInfo = NoLinkingInfo

----------------------------------------------------------------------------
\* C20: freshName.  After every call the result is the base name followed by
\* k apostrophes for the smallest k >= 0 for which that name is not in the
\* avoid set (k is at most the size of the set, so the loop has ended; the
\* base itself when it is not in the set), and evaluating the call again
\* gives the same result.
C20_FreshName ==
  op = "fresh" =>
    /\ \E k \in 0..Cardinality(avoidNames) :
         /\ fresh = Primed(varName, k)
         /\ fresh \notin avoidNames
         /\ \A j \in 0..(k - 1) : Primed(varName, j) \in avoidNames
    /\ varName \notin avoidNames => fresh = varName
    /\ fresh = freshName(varName, avoidNames)

\* The loop ran twice on a base that ends in an apostrophe, past an avoid set
\* that holds other names as well.
C20_Witness ==
  /\ op = "fresh"
  /\ varName = NameX1
  /\ fresh = Primed(varName, 2)
  /\ Cardinality(avoidNames) >= 3

----------------------------------------------------------------------------
\* How often the character c stands in the text.
CountChar(chars, c) == Cardinality({i \in DOMAIN chars : chars[i] = c})

AbstractionPaths(e) == {p \in Paths(e) : NodeAt(e, p).type = "abstraction"}

\* The abstractions that are the func or the arg of an Application.
OperandAbstractionPaths(e) ==
  {p \in AbstractionPaths(e) : p # <<>> /\ p[Len(p)] \in {"func", "arg"}}

\* The print of an operand of an Application.
OperandPrint(e) ==
  IF e.type = "abstraction" THEN <<"(">> \o toPlainString(e) \o <<")">>
  ELSE toPlainString(e)

\* The K combinator example after its first step, as the linking tests print it.
TextKAfterFirstStep ==
  <<"(", "(", "lambda", "y", ".", "f", "i", "r", "s", "t", ")", " ",
    "s", "e", "c", "o", "n", "d", ")">>

C21_KWitness ==
  /\ op = "step"
  /\ inputText = TextK
  /\ Len(steps) = 2
  /\ target = 1
  /\ toPlainString(expr) = TextKAfterFirstStep

----------------------------------------------------------------------------
\* The characters of a name.
NameChars == Letters \cup Digits \cup {"_", "'"}

WhitespaceChars == {" ", "\t", "\n"}

\* The places of a text where whitespace stands between tokens: every place
\* (0 is before the first character) that is not inside a name.
TokenGaps(input) ==
  {i \in 0..Len(input) :
     ~(i >= 1 /\ i < Len(input) /\ input[i] \in NameChars /\ input[i + 1] \in NameChars)}

\* The text with the whitespace character w put in at place i.
InsertAt(input, i, w) ==
  SubSeq(input, 1, i) \o <<w>> \o SubSeq(input, i + 1, Len(input))

\* The whitespace characters of a text that do not keep two names apart.
RemovableWhitespace(input) ==
  {i \in DOMAIN input :
     /\ input[i] \in WhitespaceChars
     /\ ~(i > 1 /\ i < Len(input) /\ input[i - 1] \in NameChars
                                  /\ input[i + 1] \in NameChars)}

RemoveAt(input, i) == SubSeq(input, 1, i - 1) \o SubSeq(input, i + 1, Len(input))

\* The texts with the same tokens as input and one whitespace character more
\* or less.
WhitespaceVariants(input) ==
  {InsertAt(input, i, w) : i \in TokenGaps(input), w \in WhitespaceChars}
    \cup {RemoveAt(input, i) : i \in RemovableWhitespace(input)}

TextCanonicalApplied == <<"(", "(", "lambda", "x", ".", "x", ")", " ", "y", ")">>

\* ((a b) c) and lambda x.lambda y.(x y), built with the constructors.
TreeChain ==
  NewApplication(NewApplication(NewVariable(<<"a">>), NewVariable(<<"b">>)),
                 NewVariable(<<"c">>))

TreeLambdaBodyApp ==
  NewAbstraction(<<"x">>,
    NewAbstraction(<<"y">>, NewApplication(NewVariable(<<"x">>), NewVariable(<<"y">>))))

\* C22: whitespace, associativity and the reach of a lambda body.  For every
\* text that parse accepts, each text with one whitespace character more at a
\* place between tokens (the start and the end included) or one whitespace
\* character less (where it does not keep two names apart) is accepted and
\* gives the same tree; "a b c" parses as ((a b) c); "lambda x.lambda y.x y"
\* parses as lambda x.lambda y.(x y); and the three spellings of (lambda x.x) y
\* print as ((lambda x.x) y).
C22_WhitespaceAndGrouping ==
  op = "parse" =>
    /\ \A variant \in WhitespaceVariants(inputText) :
         parse(variant).ok /\ parse(variant).expr = expr
    /\ inputText = TextChain => expr = TreeChain
    /\ inputText = TextLambdaBodyApp => expr = TreeLambdaBodyApp
    /\ inputText \in {TextNoSpace, TextSpacedDot, TextPadded} =>
         toPlainString(expr) = TextCanonicalApplied

\* A text with whitespace around the dot and doubled whitespace was parsed.
C22_Witness ==
  /\ op = "parse"
  /\ inputText = TextSpacedDot
  /\ Cardinality(RemovableWhitespace(inputText)) >= 4
  /\ toPlainString(expr) = TextCanonicalApplied

\* The chain of three names was parsed to the left-nested tree.
C22_ChainWitness ==
  /\ op = "parse"
  /\ inputText = TextChain
  /\ expr = TreeChain
  /\ RemovableWhitespace(inputText) = {}

----------------------------------------------------------------------------
\* (lambda x.x x) (lambda x.x x), built with the constructors.
TreeSelfApplication ==
  NewAbstraction(<<"x">>, NewApplication(NewVariable(<<"x">>), NewVariable(<<"x">>)))

TreeOmega == NewApplication(TreeSelfApplication, TreeSelfApplication)

\* The tree is in the Reducible state: it has a redex.
Reducible(e) == getRedexCount(e) >= 1

\* The current tree descends from the parse of the Omega example.
OmegaSession == origin = "parsed" /\ inputText = TextOmega /\ expr # NoTree

\* C23: reduction need not terminate.  In every state that descends from the
\* parse of the Omega example, whatever operations were applied, the tree is
\* Omega up to ids and marks, it has exactly one redex and numbering gives
\* it id 1, and reducing that redex gives Omega again: Normal Form is never
\* reached.
C23_OmegaNeverNormal ==
  OmegaSession =>
    /\ Erase(expr) = TreeOmega
    /\ Reducible(expr)
    /\ getRedexCount(numberRedexes(expr)) = 1
    /\ RedexPaths(numberRedexes(expr)) = {<<>>}
    /\ numberRedexes(expr).id = 1
    /\ Erase(reduceAt(numberRedexes(expr), 1)) = TreeOmega
    /\ Reducible(reduceAt(numberRedexes(expr), 1))

\* Omega was reduced three times in a row by the standard step, and the last
\* result carries the marks of the reduced redex.
C23_Witness ==
  /\ OmegaSession
  /\ op = "step"
  /\ target = 1
  /\ Len(steps) = MaxSteps
  /\ TaggedPaths(expr) # {}
  /\ Erase(expr) = TreeOmega

----------------------------------------------------------------------------
\* The states of the command line loop, and those among them that the reduce
\* prompt led to (currentExpr was set when the line was read).
CliOps == {"cli-menu", "cli-prompt", "cli-exit"}

AfterReducePrompt == op \in CliOps /\ before # NoTree

\* The redex ids of the tree are 1..getRedexCount, each carried by one
\* Application, a redex, and no other Application carries an id.
HasSequentialIds(e) ==
  /\ \A id \in 1..getRedexCount(e) : Cardinality(CarrierPaths(e, id)) = 1
  /\ \A p \in ApplicationPaths(e) :
       IF p \in RedexPaths(e)
       THEN NodeAt(e, p).id \in 1..getRedexCount(e)
       ELSE NodeAt(e, p).id = Null

\* What the claim says of the tree at the reduce prompt.
PromptTreeReady ==
  op = "cli-prompt" =>
    /\ expr # NoTree
    /\ getRedexCount(expr) >= 1
    /\ HasSequentialIds(expr)
    /\ TaggedPaths(expr) = {}

\* reduceAt is called only with the integer read from the line, and only
\* when it is one of the ids of currentExpr.
ReduceOnlyInRange ==
  AfterReducePrompt /\ target # Null =>
    /\ ~parseInt(trim(command)).nan
    /\ target = parseInt(trim(command)).value
    /\ target \in 1..getRedexCount(before)

\* The result of reduceAt is renumbered before it is shown, and cleared and
\* renumbered before the next prompt.
RenumberedBeforeUse ==
  AfterReducePrompt /\ target # Null =>
    /\ Erase(shown) = Erase(reduceAt(before, target))
    /\ HasSequentialIds(shown)
    /\ op = "cli-exit" => expr = shown /\ getRedexCount(shown) = 0
    /\ op = "cli-prompt" =>
         /\ getRedexCount(shown) >= 1
         /\ Erase(expr) = Erase(shown)
         /\ HasSequentialIds(expr)

C24_RejectedWitness ==
  /\ op = "cli-prompt"
  /\ before # NoTree
  /\ command = <<"3">>
  /\ target = Null
  /\ getRedexCount(before) = 2
  /\ expr = before

\* reset was typed at the reduce prompt.
C24_ResetWitness ==
  /\ op = "cli-menu"
  /\ before # NoTree
  /\ isReset(trim(command))
  /\ expr = NoTree

----------------------------------------------------------------------------
\* The provenance marks of a tree, position by position.
MarksOf(e) ==
  [p \in Paths(e) |-> <<NodeAt(e, p).fromSubstitution, NodeAt(e, p).sourceId>>]

\* The standard step without its last renumbering.
StepBeforeRenumbering(e, redexId) ==
  reduceAt(numberRedexes(clearSubstitutionMarks(e)), redexId)

\* Every mark of the tree names the id.
MarksNameOnly(e, id) ==
  /\ \A p \in Paths(e) : NodeAt(e, p).fromSubstitution => NodeAt(e, p).sourceId = id
  /\ DOMAIN getSubstitutions(e) \subseteq {id}
  /\ Cardinality(DOMAIN getSubstitutions(e)) <= 1

\* C25: the marks after one standard step.  After reduceStep with an id of
\* the tree, before and after the last renumbering, every node with
\* fromSubstitution = TRUE has sourceId = id, getSubstitutions has no key
\* but id, and numberRedexes leaves every provenance mark as it was.
C25_StepMarksNameTheId ==
  op = "step" /\ ValidRedexId(before, target) =>
    /\ MarksNameOnly(StepBeforeRenumbering(before, target), target)
    /\ MarksNameOnly(expr, target)
    /\ expr = numberRedexes(StepBeforeRenumbering(before, target))
    /\ MarksOf(expr) = MarksOf(StepBeforeRenumbering(before, target))

\* A standard step on a tree that carried the marks of another id put two
\* or more marked copies, all naming the reduced id, into the result.
C25_Witness ==
  /\ op = "step"
  /\ ValidRedexId(before, target)
  /\ \E p \in TaggedPaths(before) : NodeAt(before, p).sourceId # target
  /\ DOMAIN getSubstitutions(expr) = {target}
  /\ Len(getSubstitutions(expr)[target]) >= 2

----------------------------------------------------------------------------
\* The tree descends from a parse result.
FromParse == origin = "parsed" /\ expr # NoTree

\* Every Application of the tree that carries an id is a redex.
IdsOnRedexesOnly(e) ==
  \A p \in ApplicationPaths(e) : NodeAt(e, p).id # Null => isRedex(NodeAt(e, p))

\* C26: an id stays on a redex.  In every tree that descends from a parse
\* result through numberRedexes, clearSubstitutionMarks, reduceAt with any
\* target id, the standard step and the command line loop, every Application
\* with a non-null id has an Abstraction as its func.
C26_NumberedStaysRedex ==
  FromParse =>
    /\ IdsOnRedexesOnly(expr)
    /\ shown # NoTree => IdsOnRedexesOnly(shown)

\* A reduction without renumbering left a numbered redex in the tree and
\* made a new redex that has no id yet.
C26_Witness ==
  /\ FromParse
  /\ op = "reduce"
  /\ Erase(expr) # Erase(before)
  /\ \E p \in RedexPaths(expr) : NodeAt(expr, p).id # Null
  /\ \E p \in RedexPaths(expr) : NodeAt(expr, p).id = Null

----------------------------------------------------------------------------
\* Each node is marked exactly when it has a source id.
MarksPaired(e) ==
  \A p \in Paths(e) : NodeAt(e, p).fromSubstitution <=> NodeAt(e, p).sourceId # Null

\* C27: fromSubstitution and sourceId go together.  In every tree that
\* descends from a parse result through numberRedexes, clearSubstitutionMarks,
\* reduceAt with non-null target ids, the standard step and the command line
\* loop, a node has fromSubstitution = TRUE if and only if its sourceId is
\* not null.
C27_MarkIffSourceId ==
  FromParse /\ ~usedNullTarget =>
    /\ MarksPaired(expr)
    /\ shown # NoTree => MarksPaired(shown)

\* A reduction with a non-null id under which a binder was renamed: the
\* result has marked copies of the argument next to unmarked renamed nodes.
C27_Witness ==
  /\ FromParse
  /\ ~usedNullTarget
  /\ op \in {"reduce", "step"}
  /\ inputText = TextCapture
  /\ target # Null
  /\ TaggedPaths(expr) # {}
  /\ \E p \in AbstractionPaths(expr) :
       NodeAt(expr, p).param \notin {NodeAt(before, q).param : q \in AbstractionPaths(before)}

----------------------------------------------------------------------------
\* The names with an occurrence that no enclosing Abstraction binds, read
\* off the positions of the tree.
FreeNames(e) ==
  {NodeAt(e, p).name :
     p \in {q \in Paths(e) : /\ NodeAt(e, q).type = "variable"
                              /\ q \in FreeUsePaths(e, NodeAt(e, q).name)}}

\* C28: reduction brings in no free variable.  freeVariables gives the
\* names with an unbound occurrence; for every tree and every target id the
\* free variables of reduceAt's result are among those of the tree; and the
\* free variables of substitute(body, x, r) are those of body without x
\* together with those of r when x is free in body, and those of body when
\* it is not.
C28_NoNewFreeVariables ==
  /\ op \in {"reduce", "step"} =>
       /\ freeVariables(before) = FreeNames(before)
       /\ freeVariables(expr) = FreeNames(expr)
       /\ freeVariables(expr) \subseteq freeVariables(before)
  /\ op = "substitute" =>
       /\ freeVariables(before) = FreeNames(before)
       /\ freeVariables(expr) = FreeNames(expr)
       /\ freeVariables(expr) =
            IF varName \in freeVariables(before)
            THEN (freeVariables(before) \ {varName}) \cup freeVariables(replacement)
            ELSE freeVariables(before)

\* A substitution under a binder that had to be renamed, with a replacement
\* that brings its own free variable.
C28_Witness ==
  /\ op = "substitute"
  /\ varName \in freeVariables(before)
  /\ freeVariables(replacement) \ freeVariables(before) # {}
  /\ \E p \in AbstractionPaths(before) :
       /\ NodeAt(before, p).param \in freeVariables(replacement)
       /\ FreeUsePaths(NodeAt(before, p).body, varName) # {}
       /\ NodeAt(before, p).param # varName

\* A reduction of a numbered tree that threw a free variable away.
C28_ReduceWitness ==
  /\ op = "reduce"
  /\ IsNumbered(before)
  /\ ValidRedexId(before, target)
  /\ freeVariables(expr) # freeVariables(before)
  /\ freeVariables(expr) # {}

----------------------------------------------------------------------------
\* The id carried at each Application of the tree.
IdsOf(e) == [p \in ApplicationPaths(e) |-> NodeAt(e, p).id]

\* C30: redex ids depend on the structure of the tree only.  Numbering a
\* numbered tree changes nothing; the ids given to a tree are those given to
\* it without its ids and marks; clearing the marks of a numbered tree and
\* numbering it again leaves the id of every Application as it was; so the
\* standard step reduces the redex that carries the id in the displayed tree.
C30_IdsFromStructure ==
  /\ op \in {"number", "step", "cli-prompt"} =>
       /\ IsNumbered(expr)
       /\ numberRedexes(numberRedexes(expr)) = numberRedexes(expr)
       /\ IdsOf(numberRedexes(Erase(expr))) = IdsOf(expr)
       /\ IdsOf(numberRedexes(clearSubstitutionMarks(expr))) = IdsOf(expr)
  /\ op = "number" => numberRedexes(numberRedexes(before)) = numberRedexes(before)
  /\ op = "step" /\ IsNumbered(before) =>
       /\ IdsOf(numberRedexes(clearSubstitutionMarks(before))) = IdsOf(before)
       /\ Erase(expr) = Erase(reduceAt(before, target))

\* A numbered tree with a marked redex (a copy of a redex argument) was
\* reduced by the standard step at an id read from it.
C30_Witness ==
  /\ op = "step"
  /\ IsNumbered(before)
  /\ ValidRedexId(before, target)
  /\ \E p \in RedexPaths(before) : NodeAt(before, p).fromSubstitution
  /\ target >= 2
  /\ Erase(expr) # Erase(before)

----------------------------------------------------------------------------
\* The test sessions: a text is set up (parsed and numbered) and then reduced
\* by standard steps at ids that the tree has, one after the other.

SessionTexts == ParseInputs \cup {TextS, TextChurchTwo, TextBooleanAnd}

SessionInit == Init /\ op = "start"

\* The second half of the tests' setup helper: the parse result is numbered.
SetUpNumbering == op = "parse" /\ NumberRedexes

\* One standard step at an id of the current tree.
StandardStep ==
  /\ op \in {"number", "step"}
  /\ \E redexId \in 1..MaxTarget : ValidRedexId(expr, redexId) /\ ReduceStep(redexId)

SessionNext ==
  \/ \E input \in SessionTexts : Parse(input)
  \/ SetUpNumbering
  \/ StandardStep

\* A test runs to its end: each call returns and the next statement is run,
\* so the setup is completed and steps are taken while the tree has a redex.
SessionSpec ==
  SessionInit /\ [][SessionNext]_vars /\ WF_vars(SetUpNumbering) /\ WF_vars(StandardStep)

\* lambda x.lambda y.x, as printed.
TextTrue == <<"lambda", "x", ".", "lambda", "y", ".", "x">>

\* The Boolean OR example is being reduced.
OrSession == origin = "parsed" /\ inputText = TextBooleanOr /\ op \in {"parse", "number", "step"}

\* The reduction of the Boolean OR example has ended in lambda x.lambda y.x.
OrEnded == OrSession /\ getRedexCount(expr) = 0 /\ toPlainString(expr) = TextTrue

\* C29: the Boolean OR example terminates in TRUE.  Whichever valid id is
\* chosen at each standard step, the reduction of the example reaches a tree
\* without redexes; every tree without redexes it reaches prints as
\* lambda x.lambda y.x; the set-up example has one redex, so every order
\* starts with 1, and the tree after that first step has exactly 2 redexes.
C29_BooleanOrTerminates ==
  /\ OrSession ~> OrEnded
  /\ [](OrSession /\ getRedexCount(expr) = 0 => toPlainString(expr) = TextTrue)
  /\ [](OrSession /\ op = "number" => getRedexCount(expr) = 1)
  /\ [](OrSession /\ op = "step" /\ Len(steps) = 2 =>
          target = 1 /\ getRedexCount(expr) = 2)

\* The example was reduced to its normal form by standard steps.
C29_Witness == OrEnded /\ op = "step" /\ TaggedPaths(expr) # {}

\* The first two steps of the order 1, 2, 1, 1 were taken, and the tree
\* still has a redex.
C29_OrderWitness ==
  /\ OrSession
  /\ op = "step"
  /\ Len(steps) = 3
  /\ steps[2].reducedId = 1
  /\ getRedexCount(steps[2].expr) = 2
  /\ steps[3].reducedId = 2
  /\ getRedexCount(expr) >= 1

====
